---- MODULE Spec2Model ----
(***************************************************************************)
(* The tabular statistics engine of batch-visual-insights                  *)
(* (src/src/utils/dataUtils.ts) and the OutlierDetection component that    *)
(* drives the outlier detectors.                                           *)
(*                                                                         *)
(* JavaScript numbers are binary floating-point values.  They are modelled *)
(* as a reduced binary floating-point format: a significand of MantBits    *)
(* bits, exponents in -ExpRange..ExpRange with gradual underflow, rounding *)
(* to nearest (ties to even), the two infinities and NaN.  The sign of     *)
(* zero is not modelled.                                                   *)
(***************************************************************************)
EXTENDS Integers, Sequences, FiniteSets, TLC

\* ------------------------------------------------------------------ bounds
MantBits == 5
ExpRange == 12

\* ------------------------------------------------------- numbers (IEEE-754)
\* A number is NaN, an infinity (m = 1 or -1) or the finite value m * 2^e,
\* kept canonical: m odd, or m = 0 and e = 0.
NaN == [k |-> "nan", m |-> 0, e |-> 0]
PosInf == [k |-> "inf", m |-> 1, e |-> 0]
NegInf == [k |-> "inf", m |-> -1, e |-> 0]
Zero == [k |-> "fin", m |-> 0, e |-> 0]

IsNaN(a) == a.k = "nan"
IsFinite(a) == a.k = "fin"
IAbs(i) == IF i < 0 THEN -i ELSE i
Sgn(i) == IF i < 0 THEN -1 ELSE IF i > 0 THEN 1 ELSE 0
Inf(s) == IF s < 0 THEN NegInf ELSE PosInf

RECURSIVE Canon(_, _)
Canon(m, e) ==
  IF m = 0 THEN Zero
  ELSE IF m % 2 = 0 THEN Canon(m \div 2, e + 1)
  ELSE [k |-> "fin", m |-> m, e |-> e]

\* The largest L >= 0 with d * 2^L <= n (for n >= d > 0).
RECURSIVE LogUp(_, _, _)
LogUp(n, d, L) == IF d * 2 ^ (L + 1) <= n THEN LogUp(n, d, L + 1) ELSE L

\* The least j >= 1 with n * 2^j >= d (for 0 < n < d).
RECURSIVE LogDown(_, _, _)
LogDown(n, d, j) == IF n * 2 ^ j >= d THEN j ELSE LogDown(n, d, j + 1)

\* floor(log2(n / d)) for n, d > 0.
FloorLog2(n, d) == IF n >= d THEN LogUp(n, d, 0) ELSE -LogDown(n, d, 1)

\* The number s * mm * 2^eT, an infinity when it lies beyond the largest
\* finite number.
Finite(s, mm, eT) ==
  IF eT > ExpRange \/ (eT = ExpRange /\ mm >= 2 ^ MantBits)
  THEN Inf(s) ELSE Canon(s * mm, eT)

\* The quotient q with remainder r of a division by den, rounded to the
\* nearest integer, ties to even.
NearestEven(q, r, den) ==
  IF 2 * r > den \/ (2 * r = den /\ q % 2 = 1) THEN q + 1 ELSE q

\* s * (num / den) * 2^eT with num / den rounded to an integer.
RoundQuotient(s, num, den, eT) ==
  Finite(s, NearestEven(num \div den, num % den, den), eT)

\* s * (n / d) * 2^x rounded to a multiple of 2^eT.
RoundToExp(s, n, d, x, eT) ==
  RoundQuotient(s, IF eT - x < 0 THEN n * 2 ^ (x - eT) ELSE n,
                IF eT - x > 0 THEN d * 2 ^ (eT - x) ELSE d, eT)

\* The exponent of the last place of a number whose leading bit has the
\* exponent lead: lead - (MantBits - 1), and -ExpRange for a subnormal.
LastPlace(lead) ==
  IF lead - (MantBits - 1) < -ExpRange THEN -ExpRange ELSE lead - (MantBits - 1)

\* s * (n / d) * 2^x for n / d with the leading bit L, rounded; zero when it
\* lies below half the least subnormal.
RoundWithLead(s, n, d, x, L) ==
  IF L + x < -ExpRange - 1 THEN Zero ELSE RoundToExp(s, n, d, x, LastPlace(L + x))

\* The number nearest to s * (n / d) * 2^x (n >= 0, d > 0, s the sign):
\* one rounding to MantBits significant bits, ties to even, with gradual
\* underflow below 2^(-ExpRange) and overflow to an infinity.
RoundScaled(s, n, d, x) ==
  IF n = 0 THEN Zero ELSE RoundWithLead(s, n, d, x, FloorLog2(n, d))

\* The number nearest to the rational n / d (d > 0).
FromRatio(n, d) == RoundScaled(Sgn(n), IAbs(n), d, 0)
FromInt(i) == FromRatio(i, 1)

\* Two finite values on a common exponent: <<i1, i2, ec>> with a = i1 * 2^ec
\* and b = i2 * 2^ec.  When the exponents lie more than 2 * MantBits + 2
\* apart, the smaller value is below an eighth of the larger one's last place:
\* it is then represented by its sign alone, which keeps the order of the two
\* and the rounding of their sum.
Aligned(a, b) ==
  LET cap == 2 * MantBits + 2
  IN IF a.e - b.e > cap THEN <<a.m * 2 ^ cap, Sgn(b.m), a.e - cap>>
     ELSE IF b.e - a.e > cap THEN <<Sgn(a.m), b.m * 2 ^ cap, b.e - cap>>
     ELSE LET ec == IF a.e < b.e THEN a.e ELSE b.e
          IN <<a.m * 2 ^ (a.e - ec), b.m * 2 ^ (b.e - ec), ec>>

\* The rounded sum of two aligned values.
AddAligned(al) == RoundScaled(Sgn(al[1] + al[2]), IAbs(al[1] + al[2]), 1, al[3])

\* a + b
NAdd(a, b) ==
  IF IsNaN(a) \/ IsNaN(b) THEN NaN
  ELSE IF a.k = "inf" /\ b.k = "inf" THEN (IF a.m = b.m THEN a ELSE NaN)
  ELSE IF a.k = "inf" THEN a
  ELSE IF b.k = "inf" THEN b
  ELSE AddAligned(Aligned(a, b))

NNeg(a) == IF a.k = "nan" THEN a ELSE [a EXCEPT !.m = -a.m]

\* a - b
NSub(a, b) == NAdd(a, NNeg(b))

\* a * b
NMul(a, b) ==
  IF IsNaN(a) \/ IsNaN(b) THEN NaN
  ELSE IF a.k = "inf" \/ b.k = "inf"
       THEN (IF a.m = 0 \/ b.m = 0 THEN NaN ELSE Inf(Sgn(a.m) * Sgn(b.m)))
  ELSE RoundScaled(Sgn(a.m) * Sgn(b.m), IAbs(a.m) * IAbs(b.m), 1, a.e + b.e)

\* a / b
NDiv(a, b) ==
  IF IsNaN(a) \/ IsNaN(b) THEN NaN
  ELSE IF a.k = "inf"
       THEN (IF b.k = "inf" THEN NaN
             ELSE Inf(a.m * (IF b.m < 0 THEN -1 ELSE 1)))
  ELSE IF b.k = "inf" THEN Zero
  ELSE IF b.m = 0 THEN (IF a.m = 0 THEN NaN ELSE Inf(Sgn(a.m)))
  ELSE RoundScaled(Sgn(a.m) * Sgn(b.m), IAbs(a.m), IAbs(b.m), a.e - b.e)

LessAligned(al) == al[1] < al[2]

\* a < b (false when either is NaN)
NLt(a, b) ==
  IF IsNaN(a) \/ IsNaN(b) THEN FALSE
  ELSE IF a.k = "inf" THEN a.m < 0 /\ ~(b.k = "inf" /\ b.m < 0)
  ELSE IF b.k = "inf" THEN b.m > 0
  ELSE LessAligned(Aligned(a, b))

NGt(a, b) == NLt(b, a)
\* a <= b (false when either is NaN)
NLe(a, b) == NLt(a, b) \/ (~IsNaN(a) /\ ~IsNaN(b) /\ a = b)

\* Math.abs
NAbs(a) == IF a.k = "nan" THEN a ELSE [a EXCEPT !.m = IAbs(a.m)]

\* The integer square root: the r with r * r <= n < (r + 1) * (r + 1),
\* searched in lo..hi.
RECURSIVE ISqrt(_, _, _)
ISqrt(n, lo, hi) ==
  IF lo >= hi THEN lo
  ELSE LET mid == (lo + hi + 1) \div 2
       IN IF mid * mid <= n THEN ISqrt(n, mid, hi) ELSE ISqrt(n, lo, mid - 1)

\* The least t >= 0 with n * 4^t >= 4^MantBits.
RECURSIVE SqrtShift(_, _)
SqrtShift(n, t) == IF n * 4 ^ t >= 4 ^ MantBits THEN t ELSE SqrtShift(n, t + 1)

\* sqrt(N) * 2^x for the integer root r of N: sqrt(N) lies in [r, r + 1), and
\* r with a sticky half rounds as sqrt(N) does.
SqrtRounded(N, r, x) == RoundScaled(1, 2 * r + (IF r * r /= N THEN 1 ELSE 0), 2, x)
SqrtScaled(m2, e2, t) ==
  SqrtRounded(m2 * 4 ^ t, ISqrt(m2 * 4 ^ t, 0, 2 ^ (MantBits + 2)), (e2 \div 2) - t)
\* The square root of m2 * 2^e2 for an even e2.
SqrtEven(m2, e2) == SqrtScaled(m2, e2, SqrtShift(m2, 0))

\* Math.sqrt, correctly rounded
NSqrt(a) ==
  IF IsNaN(a) THEN NaN
  ELSE IF a.k = "inf" THEN (IF a.m > 0 THEN PosInf ELSE NaN)
  ELSE IF a.m < 0 THEN NaN
  ELSE IF a.m = 0 THEN Zero
  ELSE SqrtEven(IF a.e % 2 /= 0 THEN 2 * a.m ELSE a.m,
                IF a.e % 2 /= 0 THEN a.e - 1 ELSE a.e)

\* base^k for a small integer k >= 1 (Math.pow with an integer exponent),
\* rounded once
NPow(a, k) ==
  IF IsNaN(a) THEN NaN
  ELSE IF a.k = "inf" THEN Inf(IF k % 2 = 0 THEN 1 ELSE a.m)
  ELSE RoundScaled(IF k % 2 = 0 THEN 1 ELSE Sgn(a.m), IAbs(a.m) ^ k, 1, a.e * k)

\* ------------------------------------------------------------ arrays
\* JavaScript arrays are sequences; the source's 0-based index i is position
\* i + 1 of the sequence.
\* The members of a finite set of integers in increasing order: the order in
\* which filter and forEach visit the indices they keep.
AscSeq(S) ==
  [j \in 1..Cardinality(S) |->
    CHOOSE x \in S : Cardinality({y \in S : y < x}) = j - 1]

\* seq.reduce((acc, val) => acc + val, 0): the sum from the left
RECURSIVE SumFrom(_, _, _)
SumFrom(seq, i, acc) ==
  IF i > Len(seq) THEN acc ELSE SumFrom(seq, i + 1, NAdd(acc, seq[i]))
NSum(seq) == SumFrom(seq, 1, Zero)

\* The sign of the comparator (a, b) => a - b as sort reads it: a NaN result
\* counts as 0.
SortSign(d) == IF IsNaN(d) THEN 0 ELSE Sgn(d.m)
CompareFn(a, b) == SortSign(NSub(a, b))

\* x inserted into the sorted seq behind every element that does not compare
\* greater than it (a stable insertion).
RECURSIVE InsertSorted(_, _)
InsertSorted(seq, x) ==
  IF seq = <<>> THEN <<x>>
  ELSE IF CompareFn(seq[Len(seq)], x) > 0
       THEN Append(InsertSorted(SubSeq(seq, 1, Len(seq) - 1), x), seq[Len(seq)])
       ELSE Append(seq, x)

RECURSIVE SortFrom(_, _, _)
SortFrom(seq, i, acc) ==
  IF i > Len(seq) THEN acc ELSE SortFrom(seq, i + 1, InsertSorted(acc, seq[i]))
\* [...seq].sort((a, b) => a - b)
SortAsc(seq) == SortFrom(seq, 1, <<>>)

\* Math.min(...seq) and Math.max(...seq) of a non-empty seq without NaN
RECURSIVE MinFrom(_, _, _)
MinFrom(seq, i, acc) ==
  IF i > Len(seq) THEN acc
  ELSE MinFrom(seq, i + 1, IF NLt(seq[i], acc) THEN seq[i] ELSE acc)
MathMin(seq) == MinFrom(seq, 1, PosInf)
RECURSIVE MaxFrom(_, _, _)
MaxFrom(seq, i, acc) ==
  IF i > Len(seq) THEN acc
  ELSE MaxFrom(seq, i + 1, IF NGt(seq[i], acc) THEN seq[i] ELSE acc)
MathMax(seq) == MaxFrom(seq, 1, NegInf)

\* ------------------------------------------------------------ strings
\* A string is a sequence of one-character strings.
Digits == <<"0", "1", "2", "3", "4", "5", "6", "7", "8", "9">>
HexDigits == Digits \o <<"a", "b", "c", "d", "e", "f">>
IsSpace(c) == c \in {" ", "\t", "\r", "\n"}
IsDigit(c) == \E i \in 1..10 : Digits[i] = c
DigitVal(c) == (CHOOSE i \in 1..10 : Digits[i] = c) - 1
Lower(c) ==
  CASE c = "A" -> "a" [] c = "B" -> "b" [] c = "C" -> "c" [] c = "D" -> "d"
    [] c = "E" -> "e" [] c = "F" -> "f" [] c = "X" -> "x" [] c = "O" -> "o"
    [] OTHER -> c
IsRadixDigit(c, radix) == \E i \in 1..radix : HexDigits[i] = Lower(c)
RadixVal(c) == (CHOOSE i \in 1..16 : HexDigits[i] = Lower(c)) - 1
InfinityText == <<"I", "n", "f", "i", "n", "i", "t", "y">>

Tail2(s, n) == SubSeq(s, n + 1, Len(s))
StartsWith(s, pre) == Len(s) >= Len(pre) /\ SubSeq(s, 1, Len(pre)) = pre

RECURSIVE TrimLeft(_)
TrimLeft(s) == IF s /= <<>> /\ IsSpace(s[1]) THEN TrimLeft(Tail(s)) ELSE s
RECURSIVE TrimRight(_)
TrimRight(s) ==
  IF s /= <<>> /\ IsSpace(s[Len(s)]) THEN TrimRight(SubSeq(s, 1, Len(s) - 1)) ELSE s
\* String.prototype.trim
Trim(s) == TrimRight(TrimLeft(s))

\* The length of the longest prefix of s made of decimal digits.
RECURSIVE DigitRun(_)
DigitRun(s) == IF s /= <<>> /\ IsDigit(s[1]) THEN 1 + DigitRun(Tail(s)) ELSE 0

\* The value of a string of digits in the given radix.
RECURSIVE RadixValue(_, _, _)
RadixValue(s, radix, acc) ==
  IF s = <<>> THEN acc ELSE RadixValue(Tail(s), radix, acc * radix + RadixVal(s[1]))

\* A decimal literal of len characters with the digits ds: the value
\* ds * 10^scale.  len = 0: there is no literal.
Literal(len, ds, scale) == [len |-> len, n |-> RadixValue(ds, 10, 0), scale |-> scale]
NoLiteral == [len |-> 0, n |-> 0, scale |-> 0]

\* The exponent part r = e[sign]digits behind a mantissa of mantLen
\* characters with f digits behind the point; eFrom is 2 with a sign, eLen the
\* number of exponent digits (none: the mantissa alone is the literal).
WithExponent(ds, f, mantLen, r, eFrom, eLen) ==
  IF eLen = 0 THEN Literal(mantLen, ds, -f)
  ELSE Literal(mantLen + eFrom + eLen, ds,
               (IF eFrom = 2 /\ r[2] = "-" THEN -1 ELSE 1)
                 * RadixValue(SubSeq(r, eFrom + 1, eFrom + eLen), 10, 0) - f)
ExponentSigned(ds, f, mantLen, r, eFrom) ==
  WithExponent(ds, f, mantLen, r, eFrom, DigitRun(Tail2(r, eFrom)))
\* r is what follows the mantissa.
AfterMantissa(ds, f, mantLen, r) ==
  IF r /= <<>> /\ Lower(r[1]) = "e"
  THEN ExponentSigned(ds, f, mantLen, r,
                      IF Len(r) >= 2 /\ r[2] \in {"+", "-"} THEN 2 ELSE 1)
  ELSE Literal(mantLen, ds, -f)
\* i digits, then (dot) a point and f digits.
Mantissa(s, i, dot, f) ==
  IF i + f = 0 THEN NoLiteral
  ELSE AfterMantissa(SubSeq(s, 1, i) \o SubSeq(s, i + 2, i + 1 + f), f,
                     IF dot THEN i + 1 + f ELSE i,
                     Tail2(s, IF dot THEN i + 1 + f ELSE i))
HasPoint(s, i) == Len(s) > i /\ s[i + 1] = "."
AfterDigits(s, i) ==
  Mantissa(s, i, HasPoint(s, i), IF HasPoint(s, i) THEN DigitRun(Tail2(s, i + 1)) ELSE 0)

\* The longest prefix of s that is an unsigned decimal literal
\* (digits [. digits] [e [sign] digits] or . digits [...]), as
\* [len, n, scale]: its length (0 when there is none) and its value n * 10^scale.
DecimalPrefix(s) == AfterDigits(s, DigitRun(s))

\* The number nearest to sg * n * 10^scale.
FromDecimal(sg, n, scale) ==
  FromRatio(sg * n * (IF scale > 0 THEN 10 ^ scale ELSE 1),
            IF scale < 0 THEN 10 ^ (-scale) ELSE 1)

IsSigned(t) == t /= <<>> /\ t[1] \in {"+", "-"}
SignOf(t) == IF IsSigned(t) /\ t[1] = "-" THEN -1 ELSE 1
Unsigned(t) == IF IsSigned(t) THEN Tail(t) ELSE t

PrefixValue(d, sg) == IF d.len = 0 THEN NaN ELSE FromDecimal(sg, d.n, d.scale)
ParseUnsigned(u, sg) ==
  IF StartsWith(u, InfinityText) THEN Inf(sg) ELSE PrefixValue(DecimalPrefix(u), sg)
ParseTrimmed(t) == ParseUnsigned(Unsigned(t), SignOf(t))

\* parseFloat of a string: the longest numeric prefix after leading white
\* space, NaN when there is none.
ParseFloatStr(str) == ParseTrimmed(TrimLeft(str))

\* The radix of a literal 0x.., 0o.., 0b.. (0: none).
RadixOf(t) ==
  IF Len(t) >= 2 /\ t[1] = "0"
  THEN (CASE Lower(t[2]) = "x" -> 16 [] Lower(t[2]) = "o" -> 8
          [] Lower(t[2]) = "b" -> 2 [] OTHER -> 0)
  ELSE 0
RadixLiteral(t, radix) ==
  IF Len(t) > 2 /\ \A i \in 3..Len(t) : IsRadixDigit(t[i], radix)
  THEN FromInt(RadixValue(Tail2(t, 2), radix, 0)) ELSE NaN
WholeValue(d, len, sg) ==
  IF d.len > 0 /\ d.len = len THEN FromDecimal(sg, d.n, d.scale) ELSE NaN
WholeUnsigned(u, sg) ==
  IF u = InfinityText THEN Inf(sg) ELSE WholeValue(DecimalPrefix(u), Len(u), sg)
NumberOfTrimmed(t) ==
  IF t = <<>> THEN Zero
  ELSE IF RadixOf(t) > 0 THEN RadixLiteral(t, RadixOf(t))
  ELSE WholeUnsigned(Unsigned(t), SignOf(t))

\* Number(string): the whole trimmed string must be a numeric literal; the
\* empty string is 0.
ToNumberStr(str) == NumberOfTrimmed(Trim(str))

\* ------------------------------------------------------------ cells
\* A cell of a matrix (any[][]) is a string, a number, null or undefined.
Undefined == [k |-> "undefined", s |-> <<>>, v |-> NaN]
Null == [k |-> "null", s |-> <<>>, v |-> NaN]
StrCell(s) == [k |-> "str", s |-> s, v |-> NaN]
NumCell(v) == [k |-> "num", s |-> <<>>, v |-> v]

\* row[j] for the 0-based index j: undefined past the end of the row
At(row, j) == IF j >= 0 /\ j < Len(row) THEN row[j + 1] ELSE Undefined

\* !cell is false
Truthy(c) ==
  CASE c.k = "str" -> c.s /= <<>>
    [] c.k = "num" -> ~IsNaN(c.v) /\ c.v /= Zero
    [] OTHER -> FALSE

\* parseFloat(cell): the cell's string form is parsed; a number reads back
\* as itself, and "undefined" and "null" have no numeric prefix
ParseFloat(c) ==
  CASE c.k = "str" -> ParseFloatStr(c.s)
    [] c.k = "num" -> c.v
    [] OTHER -> NaN

\* Number(cell)
ToNumber(c) ==
  CASE c.k = "str" -> ToNumberStr(c.s)
    [] c.k = "num" -> c.v
    [] c.k = "null" -> Zero
    [] OTHER -> NaN

\* The decimal digits of n >= 0.
RECURSIVE IntToStr(_)
IntToStr(n) ==
  IF n < 10 THEN <<Digits[n + 1]>> ELSE Append(IntToStr(n \div 10), Digits[(n % 10) + 1])

\* name || `Column ${colIndex + 1}`
ColumnLabel(name, colIndex) ==
  IF Truthy(name) THEN name
  ELSE StrCell(<<"C", "o", "l", "u", "m", "n", " ">> \o IntToStr(colIndex + 1))

\* ------------------------------------------------- column classifier
isNumeric(value) == ~IsNaN(ParseFloat(value)) /\ IsFinite(ToNumber(value))

\* A scan that stops behind the first data row.
ColumnScanFirstRowOnly(data, colIndex) ==
  Truthy(At(data[2], colIndex)) /\ isNumeric(At(data[2], colIndex))
\* The inner loop of getNumericColumns: isColumnNumeric after the rows
\* 1..length-1 have been scanned (the break leaves it false).
ColumnScan(data, colIndex) ==
  \A rowIndex \in 1..(Len(data) - 1) :
    ~(~Truthy(At(data[rowIndex + 1], colIndex))
      \/ ~isNumeric(At(data[rowIndex + 1], colIndex)))

\* numericColumns.push({index: colIndex, name: ...}) for the columns cols
ColumnEntries(headers, cols) ==
  [i \in 1..Len(cols) |->
    [index |-> cols[i], name |-> ColumnLabel(At(headers, cols[i]), cols[i])]]

getNumericColumns(data, headers) ==
  IF Len(data) <= 1 THEN <<>>
  ELSE ColumnEntries(headers,
                     AscSeq({c \in 0..(Len(data[1]) - 1) : ColumnScan(data, c)}))

\* ------------------------------------------------- statistics engine
\* A statistic that is null.
NullNum == [k |-> "null", m |-> 0, e |-> 0]

\* data.slice(1).map(row => parseFloat(row[columnIndex]))
ParsedColumn(data, columnIndex) ==
  [i \in 1..(Len(data) - 1) |-> ParseFloat(At(data[i + 1], columnIndex))]

\* A filter that lets every value through.
KeepEverything(val) == TRUE
\* The filter of calculateStatistics: val => !isNaN(val)
KeepValue(val) == ~IsNaN(val)

\* The elements of seq at the positions keep.
ElementsAt(seq, keep) == [j \in 1..Len(keep) |-> seq[keep[j]]]

\* parsed.filter(val => !isNaN(val))
KeptValues(parsed) ==
  ElementsAt(parsed, AscSeq({i \in 1..Len(parsed) : KeepValue(parsed[i])}))

\* ...map(parseFloat).filter(val => !isNaN(val)): the values of the column,
\* in row order
ColumnValues(data, columnIndex) == KeptValues(ParsedColumn(data, columnIndex))

\* Math.floor(n * 0.25) and Math.floor(n * 0.75): the products are exact
Q1Index(n) == n \div 4
Q3Index(n) == (3 * n) \div 4

\* The median of a non-empty sorted array
MedianOf(sortedValues) ==
  IF Len(sortedValues) % 2 = 0
  THEN NDiv(NAdd(sortedValues[Len(sortedValues) \div 2],
                 sortedValues[(Len(sortedValues) \div 2) + 1]), FromInt(2))
  ELSE sortedValues[(Len(sortedValues) \div 2) + 1]

\* values.reduce(...) / values.length
MeanOf(values) == NDiv(NSum(values), FromInt(Len(values)))

\* values.reduce((acc, val) => acc + Math.pow(val - mean, 2), 0) / values.length
VarianceOf(values, mean) ==
  NDiv(NSum([i \in 1..Len(values) |-> NPow(NSub(values[i], mean), 2)]),
       FromInt(Len(values)))

\* values.reduce((acc, val) => acc + Math.pow((val - mean) / stdDev, k), 0)
\*   / values.length
MomentOf(values, mean, stdDev, k) ==
  NDiv(NSum([i \in 1..Len(values) |->
              NPow(NDiv(NSub(values[i], mean), stdDev), k)]),
       FromInt(Len(values)))

\* The summary of a non-empty list of values.
SummaryOf(columnName, values, sortedValues, mean, variance, stdDev) ==
  [columnName |-> columnName, mean |-> mean,
   median |-> MedianOf(sortedValues),
   min |-> MathMin(values), max |-> MathMax(values),
   stdDev |-> stdDev, variance |-> variance,
   q1 |-> sortedValues[Q1Index(Len(values)) + 1],
   q3 |-> sortedValues[Q3Index(Len(values)) + 1],
   count |-> Len(values),
   skewness |-> MomentOf(values, mean, stdDev, 3),
   kurtosis |-> NSub(MomentOf(values, mean, stdDev, 4), FromInt(3))]
SummaryFromVariance(columnName, values, sortedValues, mean, variance) ==
  SummaryOf(columnName, values, sortedValues, mean, variance, NSqrt(variance))
SummaryFromMean(columnName, values, mean) ==
  SummaryFromVariance(columnName, values, SortAsc(values), mean,
                      VarianceOf(values, mean))

\* The summary when no value is left.
EmptySummary(columnName) ==
  [columnName |-> columnName, mean |-> NullNum, median |-> NullNum,
   min |-> NullNum, max |-> NullNum, stdDev |-> NullNum,
   variance |-> NullNum, q1 |-> NullNum, q3 |-> NullNum, count |-> 0,
   skewness |-> NullNum, kurtosis |-> NullNum]

SummaryOfValues(columnName, values) ==
  IF Len(values) = 0 THEN EmptySummary(columnName)
  ELSE SummaryFromMean(columnName, values, MeanOf(values))

calculateStatistics(data, columnIndex) ==
  SummaryOfValues(ColumnLabel(At(data[1], columnIndex), columnIndex),
                  ColumnValues(data, columnIndex))

\* --------------------------------------------------- outlier detector
\* sortedData[i]: undefined past the end, which reads as NaN in arithmetic
SortedAt(sortedData, i) == IF i < Len(sortedData) THEN sortedData[i + 1] ELSE NaN

\* data.sort((a, b) => a - b) without the copy: the input array is sorted too.
SortedInPlace(data) == [sorted |-> SortAsc(data), data |-> SortAsc(data)]
\* const sortedData = [...data].sort((a, b) => a - b): the sorted copy, and
\* the input array as the call leaves it
SortedCopy(data) == [sorted |-> SortAsc(data), data |-> data]

\* A test of the upper bound alone.
AboveUpperBound(value, lowerBound, upperBound) == NGt(value, upperBound)
\* value < lowerBound || value > upperBound
OutsideBounds(value, lowerBound, upperBound) ==
  NLt(value, lowerBound) \/ NGt(value, upperBound)

\* The result {outliers, outlierIndices} for the flagged 0-based indices idx,
\* with the input array as the call leaves it.
OutlierResult(data, idx) ==
  [outliers |-> [j \in 1..Len(idx) |-> data[idx[j] + 1]],
   outlierIndices |-> idx,
   data |-> data]

\* data.forEach((value, index) => { if (value < lowerBound || value > upperBound) ... })
FlagOutside(data, lowerBound, upperBound) ==
  OutlierResult(data,
                AscSeq({i \in 0..(Len(data) - 1) :
                          OutsideBounds(data[i + 1], lowerBound, upperBound)}))
\* lowerBound = q1 - 1.5 * iqr, upperBound = q3 + 1.5 * iqr
FlagByRange(data, q1, q3, iqr) ==
  FlagOutside(data, NSub(q1, NMul(FromRatio(3, 2), iqr)),
              NAdd(q3, NMul(FromRatio(3, 2), iqr)))
FlagByQuartiles(data, q1, q3) == FlagByRange(data, q1, q3, NSub(q3, q1))
FlagBySorted(data, sortedData) ==
  FlagByQuartiles(data, SortedAt(sortedData, Q1Index(Len(sortedData))),
                  SortedAt(sortedData, Q3Index(Len(sortedData))))
FlagBySortedCopy(sc) == FlagBySorted(sc.data, sc.sorted)

detectOutliersIQR(data) == FlagBySortedCopy(SortedCopy(data))

\* The comparison turned round.
BelowThreshold(zScore, threshold) == NLt(zScore, threshold)
\* zScore > threshold
ExceedsThreshold(zScore, threshold) == NGt(zScore, threshold)

\* Math.abs((value - mean) / stdDev)
ZScore(value, mean, stdDev) == NAbs(NDiv(NSub(value, mean), stdDev))

FlagByZScore(data, threshold, mean, stdDev) ==
  OutlierResult(data,
                AscSeq({i \in 0..(Len(data) - 1) :
                          ExceedsThreshold(ZScore(data[i + 1], mean, stdDev),
                                           threshold)}))
FlagByMean(data, threshold, mean) ==
  FlagByZScore(data, threshold, mean, NSqrt(VarianceOf(data, mean)))

detectOutliersZScore(data, threshold) == FlagByMean(data, threshold, MeanOf(data))

\* A filter that takes the indices to count from 1.
CleanedValuesFromOne(columnValues, outlierIndices) ==
  ElementsAt(columnValues,
             AscSeq({i \in 1..Len(columnValues) :
                       \A j \in 1..Len(outlierIndices) : outlierIndices[j] /= i}))
\* columnValues.filter((_, index) => !indicesToRemove.has(index))
CleanedValues(columnValues, outlierIndices) ==
  ElementsAt(columnValues,
             AscSeq({i \in 1..Len(columnValues) :
                       \A j \in 1..Len(outlierIndices) : outlierIndices[j] /= i - 1}))

\* ----------------------------------------------- missing-value handler
\* val === undefined || val === null || val === ''
IsMissing(val) ==
  val.k = "undefined" \/ val.k = "null" \/ (val.k = "str" /\ val.s = <<>>)

\* A cell as the column statistics read it: a non-missing cell, mapped by
\* val => isNumeric(val) ? parseFloat(val) : val, when that is a number and
\* not NaN; NaN stands for a cell that is left out.
CellNumber(c) ==
  IF IsMissing(c) THEN NaN
  ELSE IF isNumeric(c) THEN ParseFloat(c)
  ELSE IF c.k = "num" THEN c.v ELSE NaN
KeptNumbers(nums) ==
  ElementsAt(nums, AscSeq({i \in 1..Len(nums) : ~IsNaN(nums[i])}))

\* numericValues of a column
NumericValues(data, colIndex) ==
  KeptNumbers([i \in 1..(Len(data) - 1) |-> CellNumber(At(data[i + 1], colIndex))])

\* The replacement of a missing val from columnStats[j]: {mean, median}, which
\* exists when the column has a numeric value.
StatReplacement(method, numericValues, val) ==
  IF numericValues = <<>> THEN val
  ELSE IF method = "mean" THEN NumCell(MeanOf(numericValues))
  ELSE NumCell(MedianOf(SortAsc(numericValues)))

\* columnStats is filled for the columns of the header only.
Replacement(data, method, replacementValue, j, val) ==
  IF method \in {"mean", "median"}
  THEN StatReplacement(method,
                       IF j < Len(data[1]) THEN NumericValues(data, j) ELSE <<>>,
                       val)
  ELSE IF method = "value" /\ replacementValue /= Undefined THEN replacementValue
  ELSE val

\* The columns the row loop visits: for (let j = 0; j < row.length; j++)
RowColumns(data, row) == 0..(Len(row) - 1)

\* hasMissingValues of a row
RowHasMissing(data, row) == \E j \in RowColumns(data, row) : IsMissing(At(row, j))

\* const newRow = row: no copy, newRow is the row of the input itself.
SameRow(row) == [cells |-> row, shared |-> TRUE]
\* const newRow = [...row]: the cells of the copy, which shares nothing with
\* the row of the input
CopyOfRow(row) == [cells |-> row, shared |-> FALSE]

\* The cells of newRow once the loop over the row has run.
FilledRow(data, row, cells, method, replacementValue) ==
  [p \in 1..Len(cells) |->
    IF (p - 1) \in RowColumns(data, row) /\ IsMissing(row[p])
    THEN Replacement(data, method, replacementValue, p - 1, row[p])
    ELSE cells[p]]

\* newRow of a row
NewRow(data, row, method, replacementValue) ==
  FilledRow(data, row, CopyOfRow(row).cells, method, replacementValue)

\* The row of the input once its newRow has been filled: the writes to a
\* newRow that shares the row's cells are writes to the input.
RowAfter(data, row, method, replacementValue) ==
  IF CopyOfRow(row).shared THEN NewRow(data, row, method, replacementValue) ELSE row

\* The header, then newRow of the rows at the positions keep.
ProcessedRows(data, keep, method, replacementValue) ==
  <<data[1]>> \o
  [j \in 1..Len(keep) |-> NewRow(data, data[keep[j]], method, replacementValue)]

\* A removal that splices the rows out while it walks them: the row after a
\* removed row is skipped.
RECURSIVE SplicedOut(_, _)
SplicedOut(data, i) ==
  i >= 2 /\ RowHasMissing(data, data[i]) /\ ~SplicedOut(data, i - 1)
RemoveBySplice(data, method, replacementValue) ==
  IF Len(data) <= 1 THEN data
  ELSE ProcessedRows(data,
                     AscSeq({i \in 2..Len(data) :
                               method /= "remove" \/ ~SplicedOut(data, i)}),
                     method, replacementValue)
handleMissingValues(data, method, replacementValue) ==
  IF Len(data) <= 1 THEN data
  ELSE ProcessedRows(data,
                     AscSeq({i \in 2..Len(data) :
                               method /= "remove" \/ ~RowHasMissing(data, data[i])}),
                     method, replacementValue)

\* The input matrix as the call leaves it.
InputAfter(data, method, replacementValue) ==
  IF Len(data) <= 1 THEN data
  ELSE <<data[1]>> \o
       [i \in 1..(Len(data) - 1) |-> RowAfter(data, data[i + 1], method, replacementValue)]

\* ------------------------------------------------------ chart preparers
\* data.slice(1, limit + 1): the data rows the preparers read
SlicedRows(data, limit) == SubSeq(data, 2, IF Len(data) < limit + 1 THEN Len(data) ELSE limit + 1)

\* extractedData: {label: row[labelColumnIndex], value: parseFloat(row[valueColumnIndex])}
ExtractedData(rows, labelColumnIndex, valueColumnIndex) ==
  [i \in 1..Len(rows) |->
    [label |-> At(rows[i], labelColumnIndex),
     value |-> ParseFloat(At(rows[i], valueColumnIndex))]]

\* .filter(item => !isNaN(item.value))
NotNaNItems(seq) == ElementsAt(seq, AscSeq({i \in 1..Len(seq) : ~IsNaN(seq[i].value)}))

\* .sort((a, b) => b.value - a.value): a stable insertion sort
RECURSIVE InsertDescending(_, _)
InsertDescending(seq, x) ==
  IF seq = <<>> THEN <<x>>
  ELSE IF CompareFn(x.value, seq[Len(seq)].value) > 0
       THEN Append(InsertDescending(SubSeq(seq, 1, Len(seq) - 1), x), seq[Len(seq)])
       ELSE Append(seq, x)
RECURSIVE SortDescendingFrom(_, _, _)
SortDescendingFrom(seq, i, acc) ==
  IF i > Len(seq) THEN acc
  ELSE SortDescendingFrom(seq, i + 1, InsertDescending(acc, seq[i]))
\* filteredData
FilteredData(extractedData) == SortDescendingFrom(NotNaNItems(extractedData), 1, <<>>)

\* uniqueData: the reduce that keeps the first item of every label
RECURSIVE UniqueFrom(_, _, _)
UniqueFrom(seq, i, acc) ==
  IF i > Len(seq) THEN acc
  ELSE UniqueFrom(seq, i + 1,
                  IF \E k \in 1..Len(acc) : acc[k].label = seq[i].label
                  THEN acc ELSE Append(acc, seq[i]))
UniqueData(filteredData) == UniqueFrom(filteredData, 1, <<>>)

\* uniqueData.slice(0, limit)
FirstItems(seq, limit) == SubSeq(seq, 1, IF Len(seq) < limit THEN Len(seq) ELSE limit)

\* limitedData of the bar, pie and treemap preparers
LimitedData(data, labelColumnIndex, valueColumnIndex, limit) ==
  FirstItems(UniqueData(FilteredData(
               ExtractedData(SlicedRows(data, limit), labelColumnIndex, valueColumnIndex))),
             limit)

\* {labels, datasets: [{data: values}]} of a list of items
ChartOf(items) ==
  [labels |-> [i \in 1..Len(items) |-> items[i].label],
   values |-> [i \in 1..Len(items) |-> items[i].value]]

prepareBarChartData(data, labelColumnIndex, valueColumnIndex, limit) ==
  ChartOf(LimitedData(data, labelColumnIndex, valueColumnIndex, limit))

\* limitedData.reduce((sum, item) => sum + item.value, 0)
ItemSum(items) == NSum([i \in 1..Len(items) |-> items[i].value])
OnePercent == FromRatio(1, 100)
\* (item.value / total) >= 0.01, and < 0.01
IsSignificant(item, total) == NLe(OnePercent, NDiv(item.value, total))
IsOther(item, total) == NLt(NDiv(item.value, total), OnePercent)
SignificantData(items, total) ==
  ElementsAt(items, AscSeq({i \in 1..Len(items) : IsSignificant(items[i], total)}))
OtherSum(items, total) ==
  ItemSum(ElementsAt(items, AscSeq({i \in 1..Len(items) : IsOther(items[i], total)})))
OthersLabel == StrCell(<<"O", "t", "h", "e", "r", "s">>)
\* if (otherSum > 0) significantData.push({label: 'Others', value: otherSum})
WithOthers(significantData, otherSum) ==
  IF NGt(otherSum, Zero)
  THEN Append(significantData, [label |-> OthersLabel, value |-> otherSum])
  ELSE significantData
PieOfTotal(limitedData, total) ==
  ChartOf(WithOthers(SignificantData(limitedData, total), OtherSum(limitedData, total)))
PieOfLimited(limitedData) == PieOfTotal(limitedData, ItemSum(limitedData))

preparePieChartData(data, labelColumnIndex, valueColumnIndex, limit) ==
  PieOfLimited(LimitedData(data, labelColumnIndex, valueColumnIndex, limit))

\* `Category ${row[0]}` for the cells of file.data: strings, and undefined
\* for a row without cells
CategoryName(c) ==
  StrCell(<<"C", "a", "t", "e", "g", "o", "r", "y", " ">> \o
          (CASE c.k = "str" -> c.s
             [] c.k = "null" -> <<"n", "u", "l", "l">>
             [] c.k = "undefined" -> <<"u", "n", "d", "e", "f", "i", "n", "e", "d">>))
TreeMapExtracted(rows, valueColumnIndex) ==
  [i \in 1..Len(rows) |->
    [label |-> CategoryName(At(rows[i], 0)),
     value |-> ParseFloat(At(rows[i], valueColumnIndex))]]
\* The list of {name, value}; the name is held in the field label.
prepareTreeMapData(data, valueColumnIndex, limit) ==
  FirstItems(UniqueData(FilteredData(
               TreeMapExtracted(SlicedRows(data, limit), valueColumnIndex))),
             limit)

\* Math.floor
NFloor(a) ==
  IF a.k /= "fin" \/ a.e >= 0 THEN a ELSE FromInt(a.m \div (2 ^ (-a.e)))

\* The hundredths nearest to |a|, the larger of two equally near.
Hundredths(a) ==
  IF a.e >= 0 THEN 100 * IAbs(a.m) * (2 ^ a.e)
  ELSE (200 * IAbs(a.m) + 2 ^ (-a.e)) \div (2 * (2 ^ (-a.e)))
FixedText(negative, q) ==
  (IF negative THEN <<"-">> ELSE <<>>) \o IntToStr(q \div 100) \o
  <<".", Digits[((q \div 10) % 10) + 1], Digits[(q % 10) + 1]>>
\* a.toFixed(2)
ToFixed2(a) ==
  CASE a.k = "nan" -> <<"N", "a", "N">>
    [] a.k = "inf" -> (IF a.m < 0 THEN <<"-">> ELSE <<>>) \o InfinityText
    [] OTHER -> FixedText(a.m < 0, Hundredths(a))

\* `${lowerBound.toFixed(2)} - ${upperBound.toFixed(2)}` of the bin i
BinLabel(min, binWidth, i) ==
  ToFixed2(NAdd(min, NMul(FromInt(i), binWidth))) \o <<" ", "-", " ">> \o
  ToFixed2(NAdd(min, NMul(FromInt(i + 1), binWidth)))

\* An element of an array that was never assigned.
EmptySlot == [k |-> "empty", m |-> 0, e |-> 0]
\* x++ of an array element: undefined++ leaves NaN
PlusOne(x) == IF x.k = "empty" THEN NaN ELSE NAdd(x, FromInt(1))
\* n is an array index, and the index it is.
IsArrayIndex(n) == n.k = "fin" /\ n.m >= 0 /\ n.e >= 0
IndexOf(n) == n.m * (2 ^ n.e)
\* histogram[binIndex]++: an index past the end grows the array, anything
\* that is not an index (NaN, Infinity) sets a property and no element.
Incremented(histogram, binIndex) ==
  IF ~IsArrayIndex(binIndex) THEN histogram
  ELSE IF IndexOf(binIndex) < Len(histogram)
       THEN [histogram EXCEPT ![IndexOf(binIndex) + 1] = PlusOne(@)]
       ELSE histogram \o [j \in 1..(IndexOf(binIndex) - Len(histogram)) |-> EmptySlot]
              \o <<NaN>>
\* The bin of a value: the last one for the maximum, else
\* Math.floor((value - min) / binWidth)
BinIndex(value, bins, min, max, binWidth) ==
  IF value = max THEN FromInt(bins - 1)
  ELSE NFloor(NDiv(NSub(value, min), binWidth))
\* values.forEach(value => ... histogram[...]++)
RECURSIVE CountFrom(_, _, _, _, _, _, _)
CountFrom(values, i, histogram, bins, min, max, binWidth) ==
  IF i > Len(values) THEN histogram
  ELSE CountFrom(values, i + 1,
                 Incremented(histogram, BinIndex(values[i], bins, min, max, binWidth)),
                 bins, min, max, binWidth)

HistogramOfWidth(values, bins, min, max, binWidth) ==
  [labels |-> [i \in 1..bins |-> StrCell(BinLabel(min, binWidth, i - 1))],
   values |-> CountFrom(values, 1, [i \in 1..bins |-> Zero], bins, min, max, binWidth)]
HistogramOfRange(values, bins, min, max) ==
  HistogramOfWidth(values, bins, min, max, NDiv(NSub(max, min), FromInt(bins)))
HistogramOfValues(values, bins) ==
  IF Len(values) = 0 THEN [labels |-> <<>>, values |-> <<>>]
  ELSE HistogramOfRange(values, bins, MathMin(values), MathMax(values))

prepareHistogramData(data, columnIndex, bins) ==
  HistogramOfValues(ColumnValues(data, columnIndex), bins)

\* --------------------------------------------------- dataset comparator
\* dataset.headers[columnIdx] || `Column ${columnIdx + 1}`
SelectedName(dataset, columnIdx) ==
  ColumnLabel(At(dataset.headers, columnIdx), columnIdx)

\* allColumns (a Map, its keys in insertion order) after
\* allColumns.get(columnName)?.add(id), the key set first when it is new
WithSelection(allColumns, columnName, id) ==
  IF \E i \in 1..Len(allColumns) : allColumns[i].name = columnName
  THEN [i \in 1..Len(allColumns) |->
         IF allColumns[i].name = columnName
         THEN [name |-> columnName, ids |-> allColumns[i].ids \cup {id}]
         ELSE allColumns[i]]
  ELSE Append(allColumns, [name |-> columnName, ids |-> {id}])

\* dataset.columnIndices.forEach(...), from position k on
RECURSIVE AddSelections(_, _, _)
AddSelections(allColumns, dataset, k) ==
  IF k > Len(dataset.columnIndices) THEN allColumns
  ELSE AddSelections(WithSelection(allColumns,
                                   SelectedName(dataset, dataset.columnIndices[k]),
                                   dataset.id),
                     dataset, k + 1)

\* datasets.forEach(...), from dataset d on
RECURSIVE AllColumnsFrom(_, _, _)
AllColumnsFrom(allColumns, dsets, d) ==
  IF d > Len(dsets) THEN allColumns
  ELSE AllColumnsFrom(AddSelections(allColumns, dsets[d], 1), dsets, d + 1)

AllColumns(dsets) == AllColumnsFrom(<<>>, dsets, 1)

\* headers.includes(columnName)
Includes(headers, columnName) == \E i \in 1..Len(headers) : headers[i] = columnName

\* headers.indexOf(columnName)
HeaderIndexOf(headers, columnName) ==
  IF Includes(headers, columnName)
  THEN (CHOOSE i \in 1..Len(headers) :
          /\ headers[i] = columnName
          /\ \A j \in 1..(i - 1) : headers[j] /= columnName) - 1
  ELSE -1

\* datasets.filter(ds => datasetIds.has(ds.id) && ds.headers.includes(columnName))
DatasetsWithColumn(dsets, columnName, datasetIds) ==
  ElementsAt(dsets, AscSeq({i \in 1..Len(dsets) :
                              /\ dsets[i].id \in datasetIds
                              /\ Includes(dsets[i].headers, columnName)}))

\* datasetsWithColumn.map(ds => ({datasetId, datasetName, stats}))
DatasetStats(datasetsWithColumn, columnName) ==
  [i \in 1..Len(datasetsWithColumn) |->
    [datasetId |-> datasetsWithColumn[i].id,
     datasetName |-> datasetsWithColumn[i].name,
     stats |-> calculateStatistics(datasetsWithColumn[i].data,
                                   HeaderIndexOf(datasetsWithColumn[i].headers,
                                                 columnName))]]

\* The difference of the operands in the other order.
SwappedDifference(val1, val2) ==
  IF val1.k = "null" \/ val2.k = "null" THEN Zero ELSE NSub(val2, val1)
\* if (val1 === null || val2 === null) return 0; return val1 - val2
calculateDifference(val1, val2) ==
  IF val1.k = "null" \/ val2.k = "null" THEN Zero ELSE NSub(val1, val2)

\* The size of each difference, without its sign.
MagnitudeOf(ds1, ds2) ==
  [mean |-> NAbs(calculateDifference(ds1.mean, ds2.mean)),
   median |-> NAbs(calculateDifference(ds1.median, ds2.median)),
   stdDev |-> NAbs(calculateDifference(ds1.stdDev, ds2.stdDev)),
   min |-> NAbs(calculateDifference(ds1.min, ds2.min)),
   max |-> NAbs(calculateDifference(ds1.max, ds2.max)),
   variance |-> NAbs(calculateDifference(ds1.variance, ds2.variance))]
\* differences.push({mean: calculateDifference(ds1.mean, ds2.mean), ...})
DifferenceOf(ds1, ds2) ==
  [mean |-> calculateDifference(ds1.mean, ds2.mean),
   median |-> calculateDifference(ds1.median, ds2.median),
   stdDev |-> calculateDifference(ds1.stdDev, ds2.stdDev),
   min |-> calculateDifference(ds1.min, ds2.min),
   max |-> calculateDifference(ds1.max, ds2.max),
   variance |-> calculateDifference(ds1.variance, ds2.variance)]

\* differences: one record when datasetStats.length === 2
Differences(datasetStats) ==
  IF Len(datasetStats) = 2
  THEN <<DifferenceOf(datasetStats[1].stats, datasetStats[2].stats)>>
  ELSE <<>>

ResultOfStats(columnName, datasetStats) ==
  [columnName |-> columnName, datasets |-> datasetStats,
   differences |-> Differences(datasetStats)]

\* The result pushed for one entry of allColumns.
ResultFor(dsets, entry) ==
  ResultOfStats(entry.name,
                DatasetStats(DatasetsWithColumn(dsets, entry.name, entry.ids),
                             entry.name))

ResultsOfCompared(dsets, compared) ==
  [i \in 1..Len(compared) |-> ResultFor(dsets, compared[i])]

\* for (const [columnName, datasetIds] of allColumns.entries()), the entries
\* with datasetIds.size < 2 skipped
ResultsOf(dsets, allColumns) ==
  ResultsOfCompared(dsets,
    ElementsAt(allColumns, AscSeq({i \in 1..Len(allColumns) :
                                     Cardinality(allColumns[i].ids) >= 2})))

compareDatasets(dsets) ==
  IF Len(dsets) = 0 THEN <<>> ELSE ResultsOf(dsets, AllColumns(dsets))

\* --------------------------------------------------------- CSV parser
\* str.split('\n'), from the characters left to read
RECURSIVE SplitFrom(_, _, _)
SplitFrom(str, lines, current) ==
  IF str = <<>> THEN Append(lines, current)
  ELSE IF Head(str) = "\n" THEN SplitFrom(Tail(str), Append(lines, current), <<>>)
  ELSE SplitFrom(Tail(str), lines, Append(current, Head(str)))

SplitLines(str) == SplitFrom(str, <<>>, <<>>)

\* A quote toggles whatever comes before it.
AnyQuote(line, i) == line[i + 1] = "\""
\* char === '"' && (i === 0 || line[i-1] !== '\\'), for the 0-based index i
IsQuoteToggle(line, i) == line[i + 1] = "\"" /\ (i = 0 \/ line[i] /= "\\")

\* for (let i = 0; i < line.length; i++) {...}; arr.push(currentField.trim())
RECURSIVE ScanFrom(_, _, _, _, _)
ScanFrom(line, i, arr, inQuotes, currentField) ==
  IF i >= Len(line) THEN Append(arr, Trim(currentField))
  ELSE IF IsQuoteToggle(line, i)
  THEN ScanFrom(line, i + 1, arr, ~inQuotes, currentField)
  ELSE IF line[i + 1] = "," /\ ~inQuotes
  THEN ScanFrom(line, i + 1, Append(arr, Trim(currentField)), inQuotes, <<>>)
  ELSE ScanFrom(line, i + 1, arr, inQuotes, Append(currentField, line[i + 1]))

\* The row of one line: its fields are strings.
ParseLine(line) ==
  [p \in 1..Len(ScanFrom(line, 0, <<>>, FALSE, <<>>)) |->
    StrCell(ScanFrom(line, 0, <<>>, FALSE, <<>>)[p])]

\* lines.map(line => ...)
RowsOfLines(lines) == [i \in 1..Len(lines) |-> ParseLine(lines[i])]

parseCSV(text) == RowsOfLines(SplitLines(Trim(text)))

\* --------------------------------------------------------- CSV export
\* The text of a cell in row.join(','): null and undefined give the empty
\* string, a string gives itself (the cells of a parsed file are strings).
JoinedText(cell) == IF cell.k = "str" THEN cell.s ELSE <<>>

\* parts.join(separator), from part k on
RECURSIVE JoinFrom(_, _, _)
JoinFrom(parts, separator, k) ==
  IF k > Len(parts) THEN <<>>
  ELSE IF k = Len(parts) THEN parts[k]
  ELSE parts[k] \o separator \o JoinFrom(parts, separator, k + 1)

\* The cells of a row joined with no separator.
JoinedCells(row) == JoinFrom([p \in 1..Len(row) |-> JoinedText(row[p])], <<>>, 1)
\* row.join(',')
JoinedRow(row) == JoinFrom([p \in 1..Len(row) |-> JoinedText(row[p])], <<",">>, 1)

\* dataToExport.map(row => row.join(',')).join('\n')
Serialize(rows) == JoinFrom([i \in 1..Len(rows) |-> JoinedRow(rows[i])], <<"\n">>, 1)

\* ------------------------------------------------------- file validator
EmptyFileMessage == "File is empty or could not be parsed"
NoHeadersMessage == "No column headers found"

\* `Row ${i + 1} has ${row.length} columns, expected ${headerCount}`
InconsistentIssue(i, row, headerCount) ==
  [type |-> "error",
   message |-> <<"Row ">> \o IntToStr(i + 1) \o <<" has ">> \o IntToStr(Len(row))
                 \o <<" columns, expected ">> \o IntToStr(headerCount),
   rowIndex |-> i, colIndex |-> -1]

\* !row[j] || row[j].toString().trim() === ''
IsBlank(cell) == ~Truthy(cell) \/ (cell.k = "str" /\ Trim(cell.s) = <<>>)

\* `Missing value at row ${i + 1}, column ${j + 1} (${headers[j] || 'unnamed'})`
MissingIssue(i, j, headers) ==
  [type |-> "warning",
   message |-> <<"Missing value at row ">> \o IntToStr(i + 1) \o <<", column ">>
                 \o IntToStr(j + 1) \o <<" (">>
                 \o (IF Truthy(At(headers, j)) THEN At(headers, j).s
                     ELSE <<"unnamed">>) \o <<")">>,
   rowIndex |-> i, colIndex |-> j]

MissingIssues(i, row, headers) ==
  [k \in 1..Cardinality({j \in 0..(Len(row) - 1) : IsBlank(At(row, j))}) |->
    MissingIssue(i, AscSeq({j \in 0..(Len(row) - 1) : IsBlank(At(row, j))})[k],
                 headers)]

\* The issues of data row i: its column count, then its missing values.
RowIssues(i, row, headers) ==
  (IF Len(row) /= Len(headers) THEN <<InconsistentIssue(i, row, Len(headers))>>
   ELSE <<>>) \o MissingIssues(i, row, headers)

\* for (let i = 1; i < parsedData.length; i++) {...}, from row i on
RECURSIVE IssuesFrom(_, _, _)
IssuesFrom(rows, i, issues) ==
  IF i >= Len(rows) THEN issues
  ELSE IssuesFrom(rows, i + 1, issues \o RowIssues(i, rows[i + 1], rows[1]))

\* duplicateIndexes: the data rows equal to an earlier data row
DuplicateIndexes(rows) ==
  {i \in 1..(Len(rows) - 1) : \E h \in 1..(i - 1) : rows[h + 1] = rows[i + 1]}

\* `Found ${duplicateIndexes.length} duplicate rows. Consider removing them.`
DuplicateIssue(count) ==
  [type |-> "warning",
   message |-> <<"Found ">> \o IntToStr(count)
                 \o <<" duplicate rows. Consider removing them.">>,
   rowIndex |-> -1, colIndex |-> -1]

FixedIssue(type, message) ==
  [type |-> type, message |-> <<message>>, rowIndex |-> -1, colIndex |-> -1]

HeaderIssues(headers) ==
  IF Len(headers) = 0 THEN <<FixedIssue("error", NoHeadersMessage)>> ELSE <<>>

InconsistentRowFound(rows) ==
  \E i \in 1..(Len(rows) - 1) : Len(rows[i + 1]) /= Len(rows[1])

ValidationOf(rows, issues) ==
  [isValid |-> ~InconsistentRowFound(rows),
   issues |-> IF DuplicateIndexes(rows) /= {}
              THEN Append(issues, DuplicateIssue(Cardinality(DuplicateIndexes(rows))))
              ELSE issues,
   hasDuplicateRows |-> DuplicateIndexes(rows) /= {},
   hasMissingValues |-> \E i \in 1..(Len(rows) - 1) :
                          \E j \in 0..(Len(rows[i + 1]) - 1) :
                            IsBlank(At(rows[i + 1], j)),
   hasInconsistentColumns |-> InconsistentRowFound(rows)]

validateCsvFile(rows) ==
  IF Len(rows) = 0
  THEN [isValid |-> FALSE, issues |-> <<FixedIssue("error", EmptyFileMessage)>>,
        hasDuplicateRows |-> FALSE, hasMissingValues |-> FALSE,
        hasInconsistentColumns |-> FALSE]
  ELSE ValidationOf(rows, IssuesFrom(rows, 1, HeaderIssues(rows[1])))

\* ------------------------------------------------ analysis component
\* processedData[file.id] || file.data, where <<>> stands for no entry: a
\* stored matrix always has its header row
DataToUse(stored, fileData) == IF stored /= <<>> THEN stored ELSE fileData

\* newSummaries of calculateAllStats: one summary per selected column key,
\* from the matrix the render's closure holds
NewSummaries(columns, dataToUse) ==
  [key \in DOMAIN columns |-> calculateStatistics(dataToUse, columns[key].columnIndex)]

\* if (Object.keys(summaries).length > 0) calculateAllStats(): the call runs
\* in the render that held `stored`, before setProcessedData takes effect
SummariesAfterProcessed(columns, current, stored, fileData, newData) ==
  IF DOMAIN current /= {}
  THEN NewSummaries(columns, DataToUse(stored, fileData))
  ELSE current

\* getColumnValues: dataToUse.slice(1).map(parseFloat).filter(val => !isNaN(val))
getColumnValues(columns, columnKey, dataToUse) ==
  ColumnValues(dataToUse, columns[columnKey].columnIndex)

\* [headers, ...dataToUse.slice(1).filter((_, index) => !indicesToRemove.has(index))]
FilteredRows(dataToUse, removedIndices) ==
  <<dataToUse[1]>> \o
  ElementsAt(dataToUse,
             AscSeq({i \in 2..Len(dataToUse) :
                       \A j \in 1..Len(removedIndices) : removedIndices[j] /= i - 2}))

\* ------------------------------------------- column-selection component
\* An object used as a map is a sequence of entries {key, value} in insertion
\* order. Object.keys(map):
Keys(map) == {map[i].key : i \in 1..Len(map)}
\* {...map, [key]: value}
WithEntry(map, key, value) ==
  IF key \in Keys(map)
  THEN [i \in 1..Len(map) |->
         IF map[i].key = key THEN [key |-> key, value |-> value] ELSE map[i]]
  ELSE Append(map, [key |-> key, value |-> value])
\* const copy = {...map}; delete copy[key]
WithoutKey(map, key) ==
  ElementsAt(map, AscSeq({i \in 1..Len(map) : map[i].key /= key}))

\* The summaries left as they are.
StaleSummaries(map, key) == map
\* setSummaries(prev => { const newSummaries = {...prev}; delete newSummaries[key]; ... })
RemainingSummaries(map, key) == WithoutKey(map, key)

\* `${columnOption.fileId}-${columnOption.columnIndex}`
generateColumnKey(columnOption) ==
  columnOption.fileId \o <<"-">> \o IntToStr(columnOption.columnIndex)

\* The options of one file: one per numeric column.
OptionsOfColumns(file, columns) ==
  [i \in 1..Len(columns) |->
    [fileId |-> file.id, fileName |-> file.name,
     columnIndex |-> columns[i].index, columnName |-> columns[i].name]]
OptionsOfFile(file) == OptionsOfColumns(file, getNumericColumns(file.data, file.headers))

\* options of the effect on [files], from file f on
RECURSIVE OptionsFrom(_, _)
OptionsFrom(fileList, f) ==
  IF f > Len(fileList) THEN <<>>
  ELSE OptionsOfFile(fileList[f]) \o OptionsFrom(fileList, f + 1)

\* files.find(f => f.id === fileId) finds a file
HasFile(fileList, fileId) == \E f \in 1..Len(fileList) : fileList[f].id = fileId
FindFile(fileList, fileId) ==
  fileList[CHOOSE f \in 1..Len(fileList) :
             /\ fileList[f].id = fileId
             /\ \A g \in 1..(f - 1) : fileList[g].id /= fileId]

\* The selected entries whose file is found.
FoundEntries(fileList, selected) ==
  ElementsAt(selected, AscSeq({i \in 1..Len(selected) :
                                 HasFile(fileList, selected[i].value.fileId)}))

\* newSummaries of performAnalysis: {columnName: columnOption.columnName, ...stats}
SummariesOfFound(fileList, found) ==
  [i \in 1..Len(found) |->
    [key |-> found[i].key,
     value |-> calculateStatistics(FindFile(fileList, found[i].value.fileId).data,
                                   found[i].value.columnIndex)]]

\* file.headers.findIndex(...): the first column with a cell that does not
\* parse to a number, and 0 when there is none
LabelColumnIndex(file) ==
  IF \E idx \in 0..(Len(file.headers) - 1) :
       \E i \in 2..Len(file.data) : IsNaN(ParseFloat(At(file.data[i], idx)))
  THEN CHOOSE idx \in 0..(Len(file.headers) - 1) :
         /\ \E i \in 2..Len(file.data) : IsNaN(ParseFloat(At(file.data[i], idx)))
         /\ \A h \in 0..(idx - 1) :
              \A i \in 2..Len(file.data) : ~IsNaN(ParseFloat(At(file.data[i], h)))
  ELSE 0

\* chartData for the first column of the first file: the preparers run with
\* their default limit and bins of 10
ChartDataOf(file, valueColumnIndex) ==
  [bar |-> prepareBarChartData(file.data, LabelColumnIndex(file), valueColumnIndex, 10),
   pie |-> preparePieChartData(file.data, LabelColumnIndex(file), valueColumnIndex, 10),
   histogram |-> prepareHistogramData(file.data, valueColumnIndex, 10)]
ChartDataAfter(fileList, found, current) ==
  IF found = <<>> THEN current
  ELSE ChartDataOf(FindFile(fileList, found[1].value.fileId), found[1].value.columnIndex)

\* ------------------------------------------------ comparison table
\* A row of the comparison table maps each field to a string; a field the row
\* lacks reads as undefined.
\* The order of localeCompare on the characters of the table's cells:
\* punctuation, symbols, digits, letters.
CollationOrder ==
  <<"-", ".", "+", "0", "1", "2", "3", "4", "5", "6", "7", "8", "9", "a", "b", "c">>
CollationRank(c) == CHOOSE i \in 1..Len(CollationOrder) : CollationOrder[i] = c

\* a.localeCompare(b): negative, zero or positive
RECURSIVE LocaleCompare(_, _)
LocaleCompare(a, b) ==
  IF a = <<>> THEN (IF b = <<>> THEN 0 ELSE -1)
  ELSE IF b = <<>> THEN 1
  ELSE IF a[1] = b[1] THEN LocaleCompare(Tail(a), Tail(b))
  ELSE Sgn(CollationRank(a[1]) - CollationRank(b[1]))

IsNotPlus(c) == c /= "+"
\* typeof val === 'string' ? parseFloat(val.replace(/[+]/g, '')) : val
NumberOfField(val) ==
  CASE val.k = "str" -> ParseFloatStr(SelectSeq(val.s, IsNotPlus))
    [] val.k = "num" -> val.v
    [] OTHER -> NaN

\* The comparator of handleSort on the values valA = a[field], valB = b[field]
CompareFields(valA, valB, direction) ==
  IF valA.k = "str" /\ valB.k = "str"
  THEN (IF direction = "asc" THEN LocaleCompare(valA.s, valB.s)
        ELSE LocaleCompare(valB.s, valA.s))
  ELSE IF IsNaN(NumberOfField(valA)) THEN 1
  ELSE IF IsNaN(NumberOfField(valB)) THEN -1
  ELSE IF direction = "asc"
       THEN SortSign(NSub(NumberOfField(valA), NumberOfField(valB)))
       ELSE SortSign(NSub(NumberOfField(valB), NumberOfField(valA)))

\* row inserted into the sorted rows behind every row that does not compare
\* greater than it: Array.prototype.sort is stable
RECURSIVE InsertRow(_, _, _, _)
InsertRow(rows, row, field, direction) ==
  IF rows = <<>> THEN <<row>>
  ELSE IF CompareFields(rows[Len(rows)][field], row[field], direction) > 0
       THEN Append(InsertRow(SubSeq(rows, 1, Len(rows) - 1), row, field, direction),
                   rows[Len(rows)])
       ELSE Append(rows, row)
RECURSIVE SortRowsFrom(_, _, _, _, _)
SortRowsFrom(rows, i, acc, field, direction) ==
  IF i > Len(rows) THEN acc
  ELSE SortRowsFrom(rows, i + 1, InsertRow(acc, rows[i], field, direction),
                    field, direction)
\* [...tableData].sort((a, b) => ...)
SortedRows(rows, field, direction) == SortRowsFrom(rows, 1, <<>>, field, direction)

\* setSortDirection(current => (sortField === field && current === 'asc') ? 'desc' : 'asc')
NextDirection(field, closureField, current) ==
  IF closureField = field /\ current = "asc" THEN "desc" ELSE "asc"

\* ------------------------------------------------------ file upload
CsvSuffix == <<".", "c", "s", "v">>
EndsWith(s, suffix) ==
  Len(s) >= Len(suffix) /\ SubSeq(s, Len(s) - Len(suffix) + 1, Len(s)) = suffix
\* file.type === 'text/csv' || file.name.endsWith('.csv')
IsCsvFile(file) == file.type = "text/csv" \/ EndsWith(file.name, CsvSuffix)
CsvFilesOf(fileList) == SelectSeq(fileList, IsCsvFile)

\* processFile(file): the DataFile of the k-th file of invocation u, with an
\* id no other file has
ProcessedFile(u, k, file) == [id |-> <<u, k>>, name |-> file.name]

\* mergedFiles.findIndex(f => f.name === newFile.name), 0-based, -1 for none
FindIndexOfName(mergedFiles, name) ==
  IF \E j \in 1..Len(mergedFiles) : mergedFiles[j].name = name
  THEN (CHOOSE j \in 1..Len(mergedFiles) :
          /\ mergedFiles[j].name = name
          /\ \A h \in 1..(j - 1) : mergedFiles[h].name /= name) - 1
  ELSE -1

\* if (existingIndex >= 0) mergedFiles[existingIndex] = newFile; else mergedFiles.push(newFile)
MergedWith(mergedFiles, existingIndex, newFile) ==
  IF existingIndex >= 0
  THEN [mergedFiles EXCEPT ![existingIndex + 1] = newFile]
  ELSE Append(mergedFiles, newFile)

\* An invocation of handleFiles that has not started.
NotStarted ==
  [stage |-> "idle", files |-> <<>>, csvFiles |-> <<>>, processedFiles |-> <<>>,
   mergedFiles |-> <<>>, i |-> 0, existingIndex |-> -1]
\* The invocation after its last processFile: mergedFiles = [...files] of the
\* closure, and the loop over processedFiles stops at its first await
BeforeSave(up, processed) ==
  [up EXCEPT !.stage = "saving", !.processedFiles = processed,
             !.mergedFiles = up.files, !.i = 0,
             !.existingIndex = FindIndexOfName(up.files, processed[1].name)]
\* The invocation after processFile resolved with the next file.
AfterProcessed(up, processed) ==
  IF Len(processed) < Len(up.csvFiles)
  THEN [up EXCEPT !.processedFiles = processed]
  ELSE BeforeSave(up, processed)
\* The invocation after saveFileToDatabase resolved and the file was merged.
AfterSaved(up, merged) ==
  IF up.i + 1 < Len(up.processedFiles)
  THEN [up EXCEPT !.mergedFiles = merged, !.i = up.i + 1,
                  !.existingIndex =
                     FindIndexOfName(merged, up.processedFiles[up.i + 2].name)]
  ELSE [up EXCEPT !.mergedFiles = merged, !.i = up.i + 1, !.stage = "done"]

\* ------------------------------------------------------------ state
VARIABLES
  pc,               \* which component holds the state, and how far it got
  data,             \* file.data: the matrix of an uploaded file
  numericColumns,   \* the result of getNumericColumns
  columnIndex,      \* the column calculateStatistics was called for
  summary,          \* the DatasetSummary it returned
  columnValues,     \* the array given to the outlier detector
  detectionMethod,  \* the component's detection method: 'iqr' or 'zscore'
  threshold,        \* the threshold given to detectOutliersZScore
  detection,        \* the detector's {outliers, outlierIndices}
  cleanedValues,    \* the values removeOutliers hands to onOutliersRemoved
  method,           \* the method given to handleMissingValues
  replacementValue, \* its replacement value
  processedData,    \* the matrix it returned
  chartArgs,        \* the columns, limit and bins given to a chart preparer
  chart,            \* the chart data it returned
  datasets,         \* the datasets given to compareDatasets
  comparison,       \* the ComparisonResult list it returned
  csv,              \* the text of an uploaded file
  parsedData,       \* parseCSV of the text
  validation,       \* validateCsvFile of the parsed data
  exportedCsv,      \* the text exportFilteredDataset wrote
  summaries,        \* DataAnalysis: the summary of each selected column key
  selectedColumn,   \* DataAnalysis: the column key shown in the tabs, or null
  filteredData,     \* DataAnalysis: filteredData[file.id], <<>> when not set
  files,            \* the uploaded files: FileUpload's state, the components' prop
  columnOptions,    \* the column options of the column-selection component
  selectedColumns,  \* its selected columns: entries {key, value} in insertion order
  tableData,        \* DataComparison: the rows of the comparison table
  sortField,        \* DataComparison: the field of the last sort, or null
  sortDirection,    \* DataComparison: 'asc' or 'desc'
  uploads           \* the handleFiles invocations: their closures and locals

vars == <<pc, data, numericColumns, columnIndex, summary, columnValues,
          detectionMethod, threshold, detection, cleanedValues, method, replacementValue,
          processedData, chartArgs, chart, datasets, comparison, csv,
          parsedData, validation, exportedCsv, summaries, selectedColumn,
          filteredData, files, columnOptions, selectedColumns, tableData,
          sortField, sortDirection, uploads>>

matrixVars == <<data, numericColumns, columnIndex, summary>>
outlierVars == <<columnValues, detectionMethod, threshold, detection, cleanedValues>>
missingVars == <<method, replacementValue, processedData>>
chartVars == <<chartArgs, chart>>
compareVars == <<datasets, comparison>>
parseVars == <<csv, parsedData, validation>>
exportVars == <<exportedCsv>>
analysisVars == <<summaries, selectedColumn, filteredData>>
selectionVars == <<files, columnOptions, selectedColumns>>
sortVars == <<tableData, sortField, sortDirection>>
restVars == <<exportVars, sortVars, uploads>>
appVars == <<restVars, analysisVars, selectionVars>>

\* ------------------------------------------------------------ inputs
MaxRows == 2
MaxLen == 6
MaxShuffled == 4

\* All sequences over S of length 0..n.
RECURSIVE SeqsUpTo(_, _)
SeqsUpTo(S, n) ==
  IF n = 0 THEN {<<>>}
  ELSE LET shorter == SeqsUpTo(S, n - 1)
       IN shorter \cup {Append(q, x) : q \in {r \in shorter : Len(r) = n - 1}, x \in S}

Header == <<StrCell(<<"x">>), StrCell(<<"y">>)>>

\* The fields parseCSV can leave in the first and in the second column of a
\* data row: empty, text, a number followed by text, the infinities, numbers.
FirstCells ==
  {StrCell(t) : t \in {<<>>, <<"a">>, <<"7", "a">>, InfinityText,
                       <<"-">> \o InfinityText, <<"0">>, <<"1">>, <<"3">>,
                       <<"0", "x", "1">>}}
SecondCells == {StrCell(t) : t \in {<<>>, <<"2">>}}

\* Data rows: a row may be shorter than the header.
StatRows == {<<c>> : c \in FirstCells} \cup {<<c, d>> : c \in FirstCells, d \in SecondCells}
\* A column whose threefold sum is rounded: 1.375 three times (0.1 is such a
\* value in double precision).
RoundedText == <<"1", ".", "3", "7", "5">>
RoundedMatrix == <<Header, <<StrCell(RoundedText)>>, <<StrCell(RoundedText)>>,
                   <<StrCell(RoundedText)>>>>
StatMatrices ==
  {<<Header>> \o rows : rows \in SeqsUpTo(StatRows, MaxRows)} \cup {RoundedMatrix}

NoSummary == [columnName |-> Undefined, mean |-> NullNum, median |-> NullNum,
              min |-> NullNum, max |-> NullNum, stdDev |-> NullNum,
              variance |-> NullNum, q1 |-> NullNum, q3 |-> NullNum, count |-> -1,
              skewness |-> NullNum, kurtosis |-> NullNum]
NoDetection == [outliers |-> <<>>, outlierIndices |-> <<>>, data |-> <<>>]

IdleMatrix == data = <<Header>> /\ numericColumns = <<>> /\ columnIndex = -1
              /\ summary = NoSummary
IdleOutliers == columnValues = <<>> /\ detectionMethod = "iqr" /\ threshold = NaN
                /\ detection = NoDetection /\ cleanedValues = <<>>
IdleMissing == method = "none" /\ replacementValue = Undefined /\ processedData = <<>>
NoArgs == [labelColumnIndex |-> -1, valueColumnIndex |-> -1, limit |-> 0, bins |-> 0]
NoChart == [labels |-> <<>>, values |-> <<>>]
NoValidation ==
  [isValid |-> FALSE, issues |-> <<>>, hasDuplicateRows |-> FALSE,
   hasMissingValues |-> FALSE, hasInconsistentColumns |-> FALSE]
IdleCharts == chartArgs = NoArgs /\ chart = NoChart
IdleCompare == datasets = <<>> /\ comparison = <<>>
IdleParse == csv = <<>> /\ parsedData = <<>> /\ validation = NoValidation
IdleExport == exportedCsv = <<>>
IdleAnalysis == summaries = <<>> /\ selectedColumn = "null" /\ filteredData = <<>>
IdleSelection == files = <<>> /\ columnOptions = <<>> /\ selectedColumns = <<>>
IdleSort == tableData = <<>> /\ sortField = "null" /\ sortDirection = "asc"
IdleUpload == uploads = <<>>
IdleRest == IdleExport /\ IdleSort /\ IdleUpload
IdleApp == IdleRest /\ IdleAnalysis /\ IdleSelection

\* ------------------------------------------- classifier and statistics
InitStats ==
  /\ pc = "loaded"
  /\ data \in StatMatrices
  /\ numericColumns = <<>> /\ columnIndex = -1 /\ summary = NoSummary
  /\ IdleOutliers /\ IdleMissing /\ IdleCharts /\ IdleCompare /\ IdleParse /\ IdleApp

\* getNumericColumns(file.data, file.headers)
GetNumericColumns ==
  /\ pc = "loaded"
  /\ numericColumns' = getNumericColumns(data, data[1])
  /\ pc' = "classified"
  /\ UNCHANGED <<data, columnIndex, summary, outlierVars, missingVars,
               chartVars, compareVars, parseVars, appVars>>

\* calculateStatistics(file.data, c) for a column c of the header
CalculateStatistics(c) ==
  /\ pc = "loaded"
  /\ columnIndex' = c
  /\ summary' = calculateStatistics(data, c)
  /\ pc' = "summarised"
  /\ UNCHANGED <<data, numericColumns, outlierVars, missingVars,
               chartVars, compareVars, parseVars, appVars>>

NextStats ==
  \/ GetNumericColumns
  \/ \E c \in 0..(Len(data[1]) - 1) : CalculateStatistics(c)

SpecStats == InitStats /\ [][NextStats]_vars

\* ------------------------------------------------------ outlier detector
Num(i) == FromInt(i)
NumSeq(ints) == [i \in 1..Len(ints) |-> FromInt(ints[i])]

\* Small values, whose sums and means are exact.
ValuePool == {Num(0), Num(1), Num(2), Num(4)}
\* The column of the worked example.
ExampleColumn == NumSeq(<<10, 12, 12, 13, 12, 200>>)
\* Values whose threefold sum is rounded (in double precision 0.1 is one):
\* an ordinary one, and one so small that the square of a rounding error
\* underflows.
RoundedThird == FromRatio(11, 8)
TinyRoundedThird == FromRatio(11, 2048)
ConstantColumns == {<<x, x, x>> : x \in {RoundedThird, TinyRoundedThird}}
\* parseFloat keeps "Infinity", so a column of values may hold infinities.
InfiniteColumns == SeqsUpTo({Num(1), PosInf, NegInf}, 3)

\* The ascending sequences over S of length 0..n.
RECURSIVE AscendingUpTo(_, _)
AscendingUpTo(S, n) ==
  IF n = 0 THEN {<<>>}
  ELSE LET shorter == AscendingUpTo(S, n - 1)
       IN shorter \cup
          UNION {{Append(q, x) : x \in {y \in S : \A i \in 1..(n - 1) : NLe(q[i], y)}} :
                   q \in {r \in shorter : Len(r) = n - 1}}

\* Arrays in every order up to MaxShuffled values, ascending arrays up to
\* MaxLen values, and the columns above.
OutlierInputs ==
  SeqsUpTo(ValuePool, MaxShuffled) \cup AscendingUpTo(ValuePool, MaxLen)
    \cup {ExampleColumn} \cup ConstantColumns \cup InfiniteColumns

\* The thresholds the component offers (2.0, 2.5, 3.0; 3 is the default of
\* detectOutliersZScore) and two lower ones.
Thresholds == {FromRatio(1, 2), Num(1), Num(2), FromRatio(5, 2), Num(3)}

InitOutliers ==
  /\ pc = "values"
  /\ columnValues \in OutlierInputs
  /\ detectionMethod = "iqr"
  /\ threshold = NaN /\ detection = NoDetection /\ cleanedValues = <<>>
  /\ IdleMatrix /\ IdleMissing /\ IdleCharts /\ IdleCompare /\ IdleParse /\ IdleApp

\* getOutliers with detectionMethod 'iqr'
DetectOutliersIQR ==
  /\ pc = "values"
  /\ LET res == detectOutliersIQR(columnValues)
     IN /\ detection' = [outliers |-> res.outliers,
                         outlierIndices |-> res.outlierIndices,
                         data |-> <<>>]
        /\ columnValues' = res.data
  /\ detectionMethod' = "iqr"
  /\ pc' = "iqr"
  /\ UNCHANGED <<threshold, cleanedValues, matrixVars, missingVars,
               chartVars, compareVars, parseVars, appVars>>

\* getOutliers with detectionMethod 'zscore' and the threshold t
DetectOutliersZScore(t) ==
  /\ pc = "values"
  /\ LET res == detectOutliersZScore(columnValues, t)
     IN /\ detection' = [outliers |-> res.outliers,
                         outlierIndices |-> res.outlierIndices,
                         data |-> <<>>]
        /\ columnValues' = res.data
  /\ detectionMethod' = "zscore"
  /\ threshold' = t
  /\ pc' = "zscore"
  /\ UNCHANGED <<cleanedValues, matrixVars, missingVars,
               chartVars, compareVars, parseVars, appVars>>

\* removeOutliers: nothing is handed on when there is no outlier
RemoveOutliers ==
  /\ pc \in {"iqr", "zscore"}
  /\ detection.outliers /= <<>>
  /\ cleanedValues' = CleanedValues(columnValues, detection.outlierIndices)
  /\ pc' = "removed"
  /\ UNCHANGED <<columnValues, detectionMethod, threshold, detection, matrixVars, missingVars,
               chartVars, compareVars, parseVars, appVars>>

NextOutliers ==
  \/ DetectOutliersIQR
  \/ \E t \in Thresholds : DetectOutliersZScore(t)
  \/ RemoveOutliers

SpecOutliers == InitOutliers /\ [][NextOutliers]_vars

\* ------------------------------------------------ missing-value handler
\* The fields of a data row, and rows shorter and longer than the header.
MissingCells == {StrCell(t) : t \in {<<>>, <<"1">>, <<"4">>, <<"a">>}}
LongRows == {<<StrCell(<<"1">>), StrCell(<<"4">>), StrCell(<<>>)>>,
             <<StrCell(<<"1">>), StrCell(<<>>), StrCell(<<"4">>)>>}
MissingRows ==
  {<<c>> : c \in MissingCells} \cup {<<c, d>> : c \in MissingCells, d \in MissingCells}
    \cup LongRows
MissingMatrices == {<<Header>> \o rows : rows \in SeqsUpTo(MissingRows, MaxRows)}

\* handleImputation passes a replacement only for 'value': the number the
\* entered text parses to, or the text itself (possibly empty).
Replacements(m) ==
  IF m = "value" THEN {NumCell(Zero), StrCell(<<"a">>), StrCell(<<>>)} ELSE {Undefined}

InitMissing ==
  /\ pc = "raw"
  /\ data \in MissingMatrices
  /\ numericColumns = <<>> /\ columnIndex = -1 /\ summary = NoSummary
  /\ IdleOutliers /\ IdleMissing /\ IdleCharts /\ IdleCompare /\ IdleParse /\ IdleApp

\* handleMissingValues(file.data, imputationMethod, replacementVal)
HandleMissingValues(m, rv) ==
  /\ pc = "raw"
  /\ method' = m
  /\ replacementValue' = rv
  /\ processedData' = handleMissingValues(data, m, rv)
  /\ data' = InputAfter(data, m, rv)
  /\ pc' = "processed"
  /\ UNCHANGED <<numericColumns, columnIndex, summary, outlierVars,
               chartVars, compareVars, parseVars, appVars>>

NextMissing ==
  \E m \in {"remove", "mean", "median", "value"} :
    \E rv \in Replacements(m) : HandleMissingValues(m, rv)

SpecMissing == InitMissing /\ [][NextMissing]_vars

\* ------------------------------------------------------ chart preparers
MaxChartRows == 3
MaxLimit == 3
MaxBins == 3

\* The fields of a chart's label column and value column: numbers, a negative
\* one, an infinity and text.
ChartLabels == {StrCell(t) : t \in {<<"a">>, <<"b">>}}
ChartValues ==
  {StrCell(t) : t \in {<<"1">>, <<"2">>, <<"-", "1">>, InfinityText, <<"x">>}}
ChartRows == {<<l, v>> : l \in ChartLabels, v \in ChartValues} \cup {<<StrCell(<<"a">>)>>}
\* A column with a value so close below the maximum that its quotient by the
\* bin width is rounded up to the number of bins: 0, 3.5 and 3.625 (in double
\* precision 0.3, 0.9999999999999999 and 1 are such values).
NearMaximumMatrix ==
  <<Header, <<StrCell(<<"a">>), StrCell(<<"0">>)>>,
    <<StrCell(<<"a">>), StrCell(<<"3", ".", "5">>)>>,
    <<StrCell(<<"a">>), StrCell(<<"3", ".", "6", "2", "5">>)>>>>
ChartMatrices ==
  {<<Header>> \o rows : rows \in SeqsUpTo(ChartRows, MaxChartRows)}
    \cup {NearMaximumMatrix}

InitCharts ==
  /\ pc = "charts"
  /\ data \in ChartMatrices
  /\ numericColumns = <<>> /\ columnIndex = -1 /\ summary = NoSummary
  /\ IdleOutliers /\ IdleMissing /\ IdleCharts /\ IdleCompare /\ IdleParse /\ IdleApp

\* prepareBarChartData(file.data, labelColumnIndex, columnIndex, limit) with the
\* first column as the label column and the second as the value column
PrepareBarChartData(limit) ==
  /\ pc = "charts"
  /\ chartArgs' = [labelColumnIndex |-> 0, valueColumnIndex |-> 1, limit |-> limit,
                   bins |-> 0]
  /\ chart' = prepareBarChartData(data, 0, 1, limit)
  /\ pc' = "bar"
  /\ UNCHANGED <<matrixVars, outlierVars, missingVars, compareVars, parseVars, appVars>>

PreparePieChartData(limit) ==
  /\ pc = "charts"
  /\ chartArgs' = [labelColumnIndex |-> 0, valueColumnIndex |-> 1, limit |-> limit,
                   bins |-> 0]
  /\ chart' = preparePieChartData(data, 0, 1, limit)
  /\ pc' = "pie"
  /\ UNCHANGED <<matrixVars, outlierVars, missingVars, compareVars, parseVars, appVars>>

\* prepareTreeMapData(file.data, columnIndex, limit): the names come from the
\* first column
PrepareTreeMapData(limit) ==
  /\ pc = "charts"
  /\ chartArgs' = [labelColumnIndex |-> 0, valueColumnIndex |-> 1, limit |-> limit,
                   bins |-> 0]
  /\ chart' = ChartOf(prepareTreeMapData(data, 1, limit))
  /\ pc' = "treemap"
  /\ UNCHANGED <<matrixVars, outlierVars, missingVars, compareVars, parseVars, appVars>>

PrepareHistogramData(bins) ==
  /\ pc = "charts"
  /\ chartArgs' = [labelColumnIndex |-> -1, valueColumnIndex |-> 1, limit |-> 0,
                   bins |-> bins]
  /\ chart' = prepareHistogramData(data, 1, bins)
  /\ pc' = "histogram"
  /\ UNCHANGED <<matrixVars, outlierVars, missingVars, compareVars, parseVars, appVars>>

NextCharts ==
  \/ \E limit \in 1..MaxLimit :
       \/ PrepareBarChartData(limit)
       \/ PreparePieChartData(limit)
       \/ PrepareTreeMapData(limit)
  \/ \E bins \in 1..MaxBins : PrepareHistogramData(bins)

SpecCharts == InitCharts /\ [][NextCharts]_vars

\* --------------------------------------------------- dataset comparator
MaxDatasets == 3

\* The header rows of the compared files: two names, an empty header, and
\* the same name twice.
ComparedHeaders ==
  {<<StrCell(<<"x">>), StrCell(<<"y">>)>>,
   <<StrCell(<<"x">>), StrCell(<<>>)>>,
   <<StrCell(<<"x">>), StrCell(<<"x">>)>>}
\* The data rows of the compared files: two numeric columns, or a first column
\* without a number.
ComparedBodies ==
  {<<<<StrCell(<<"1">>), StrCell(<<"2">>)>>, <<StrCell(<<"3">>), StrCell(<<"4">>)>>>>,
   <<<<StrCell(<<"a">>), StrCell(<<"1">>)>>>>}
\* fileColumnMapping[file.id]: the selected columns of a file, never empty
ComparedSelections == {<<1>>, <<0, 1>>}
FileIds == <<"f1", "f2", "f3", "f4">>

\* The dataset built from an uploaded file: headers is the first row of data.
DatasetOf(i, headers, body, columnIndices) ==
  [id |-> FileIds[i], name |-> FileIds[i], data |-> <<headers>> \o body,
   headers |-> headers, columnIndices |-> columnIndices]
DatasetsAt(i) ==
  {DatasetOf(i, h, b, c) : h \in ComparedHeaders, b \in ComparedBodies,
                           c \in ComparedSelections}
RECURSIVE DatasetLists(_)
DatasetLists(n) ==
  IF n = 0 THEN {<<>>}
  ELSE {Append(q, ds) : q \in DatasetLists(n - 1), ds \in DatasetsAt(n)}

InitCompare ==
  /\ pc = "selected"
  /\ IdleMatrix /\ IdleOutliers /\ IdleMissing /\ IdleCharts /\ IdleParse /\ IdleApp
  /\ \E n \in 0..MaxDatasets : datasets \in DatasetLists(n)
  /\ comparison = <<>>

\* const results = compareDatasets(datasetsToCompare)
CompareDatasets ==
  /\ pc = "selected"
  /\ comparison' = compareDatasets(datasets)
  /\ pc' = "compared"
  /\ UNCHANGED <<matrixVars, outlierVars, missingVars, chartVars, datasets, parseVars, appVars>>

NextCompare == CompareDatasets

SpecCompare == InitCompare /\ [][NextCompare]_vars

\* ------------------------------------------------------------ CSV files
MaxCsvLen == 4

\* The characters of an uploaded text: a letter, the comma, the double quote,
\* the backslash, a space and the line break.
CsvChars == {"a", ",", "\"", "\\", " ", "\n"}

InitParse ==
  /\ pc = "read"
  /\ IdleMatrix /\ IdleOutliers /\ IdleMissing /\ IdleCharts /\ IdleCompare
  /\ IdleApp
  /\ csv \in SeqsUpTo(CsvChars, MaxCsvLen)
  /\ parsedData = <<>> /\ validation = NoValidation

\* reader.onload: parsedData = parseCSV(csvContent), then
\* validation = validateCsvFile(parsedData)
ProcessFile ==
  /\ pc = "read"
  /\ parsedData' = parseCSV(csv)
  /\ validation' = validateCsvFile(parseCSV(csv))
  /\ pc' = "uploaded"
  /\ UNCHANGED <<matrixVars, outlierVars, missingVars, chartVars, compareVars, csv,
               appVars>>

\* exportFilteredDataset, for a file none of whose rows was filtered out: a
\* matrix with no data row is not exported
ExportFilteredDataset ==
  /\ pc = "uploaded"
  /\ Len(parsedData) > 1
  /\ exportedCsv' = Serialize(parsedData)
  /\ pc' = "exported"
  /\ UNCHANGED <<matrixVars, outlierVars, missingVars, chartVars, compareVars,
               parseVars, sortVars, uploads, analysisVars, selectionVars>>

NextParse == ProcessFile \/ ExportFilteredDataset

SpecParse == InitParse /\ [][NextParse]_vars

\* ------------------------------------------------ analysis component
MaxAnalysisRows == 2

\* The selected columns of the one uploaded file, by column key.
AnalysisKeys == <<"f1-0", "f1-1">>
AnalysisColumns ==
  [key \in {"f1-0", "f1-1"} |->
    [fileId |-> "f1", columnIndex |-> IF key = "f1-0" THEN 0 ELSE 1]]

\* Four equal rows, then rows with a far value in either column, a missing
\* cell or text.
CommonRow == <<StrCell(<<"1">>), StrCell(<<"1">>)>>
AnalysisRows ==
  {<<StrCell(<<"9">>), StrCell(<<"1">>)>>, <<StrCell(<<"1">>), StrCell(<<"9">>)>>,
   <<StrCell(<<>>), StrCell(<<"1">>)>>, <<StrCell(<<"a">>), StrCell(<<"9">>)>>}
AnalysisMatrices ==
  {<<Header, CommonRow, CommonRow, CommonRow, CommonRow>> \o rows :
     rows \in SeqsUpTo(AnalysisRows, MaxAnalysisRows)}

\* The positions of the analysis component.
AnalysisStages == {"analysis", "calculated", "imputed", "filtered"}

InitAnalysis ==
  /\ pc = "analysis"
  /\ data \in AnalysisMatrices
  /\ numericColumns = <<>> /\ columnIndex = -1 /\ summary = NoSummary
  /\ IdleOutliers /\ IdleMissing /\ IdleCharts /\ IdleCompare /\ IdleParse
  /\ IdleRest /\ IdleAnalysis /\ IdleSelection

\* The Calculate Statistics button: calculateAllStats
CalculateAllStats ==
  /\ pc \in AnalysisStages
  /\ summaries' = NewSummaries(AnalysisColumns, DataToUse(processedData, data))
  /\ selectedColumn' = AnalysisKeys[1]
  /\ pc' = "calculated"
  /\ UNCHANGED <<matrixVars, outlierVars, missingVars, chartVars, compareVars,
               parseVars, restVars, filteredData, selectionVars>>

\* A click on the card of a column: setSelectedColumn(key)
SetSelectedColumn(key) ==
  /\ pc \in AnalysisStages
  /\ key \in DOMAIN summaries
  /\ selectedColumn' = key
  /\ UNCHANGED <<pc, matrixVars, outlierVars, missingVars, chartVars, compareVars,
               parseVars, restVars, summaries, filteredData, selectionVars>>

\* handleImputation of the file's MissingValues card, and the
\* handleProcessedData it calls with the processed matrix
HandleProcessedData(m, rv) ==
  /\ pc \in AnalysisStages
  /\ method' = m
  /\ replacementValue' = rv
  /\ processedData' = handleMissingValues(data, m, rv)
  /\ data' = InputAfter(data, m, rv)
  /\ summaries' = SummariesAfterProcessed(AnalysisColumns, summaries, processedData,
                                          data, handleMissingValues(data, m, rv))
  /\ selectedColumn' = IF DOMAIN summaries /= {} THEN AnalysisKeys[1] ELSE selectedColumn
  /\ pc' = "imputed"
  /\ UNCHANGED <<numericColumns, columnIndex, summary, outlierVars, chartVars,
               compareVars, parseVars, restVars, filteredData, selectionVars>>

\* removeOutliers of the OutlierDetection card of the selected column, and
\* the handleOutliersRemoved it calls; the card detects by IQR
HandleOutliersRemoved ==
  /\ pc \in AnalysisStages
  /\ selectedColumn /= "null"
  /\ detectOutliersIQR(getColumnValues(AnalysisColumns, selectedColumn,
                                       DataToUse(processedData, data))).outliers /= <<>>
  /\ columnValues' = getColumnValues(AnalysisColumns, selectedColumn,
                                     DataToUse(processedData, data))
  /\ detection' = detectOutliersIQR(columnValues')
  /\ cleanedValues' = CleanedValues(columnValues', detection'.outlierIndices)
  /\ filteredData' = FilteredRows(DataToUse(processedData, data),
                                  detection'.outlierIndices)
  /\ pc' = "filtered"
  /\ UNCHANGED <<matrixVars, detectionMethod, threshold, missingVars, chartVars,
               compareVars, parseVars, restVars, summaries, selectedColumn,
               selectionVars>>

NextAnalysis ==
  \/ CalculateAllStats
  \/ \E key \in {"f1-0", "f1-1"} : SetSelectedColumn(key)
  \/ \E m \in {"remove", "mean", "median", "value"} :
       \E rv \in Replacements(m) : HandleProcessedData(m, rv)
  \/ HandleOutliersRemoved

SpecAnalysis == InitAnalysis /\ [][NextAnalysis]_vars

\* ------------------------------------------- column-selection component
\* Two uploaded files: one with two numeric columns, one with a numeric and
\* a text column.
SelectionFiles ==
  <<[id |-> <<"f", "1">>, name |-> "a.csv", headers |-> Header,
     data |-> <<Header, <<StrCell(<<"1">>), StrCell(<<"2">>)>>,
                <<StrCell(<<"3">>), StrCell(<<"4">>)>>>>],
    [id |-> <<"f", "2">>, name |-> "b.csv", headers |-> Header,
     data |-> <<Header, <<StrCell(<<"a">>), StrCell(<<"1">>)>>>>],
    [id |-> <<"f", "3">>, name |-> "c.csv", headers |-> Header,
     data |-> <<Header, <<StrCell(<<"a">>), StrCell(<<"b">>)>>>>]>>
\* The file lists the parent can pass: the uploaded files, in upload order.
FileLists ==
  {ElementsAt(SelectionFiles, AscSeq(S)) : S \in SUBSET (1..Len(SelectionFiles))}
NoChartData == [bar |-> NoChart, pie |-> NoChart, histogram |-> NoChart]

\* The positions of the column-selection component.
SelectionStages == {"selection", "files", "chosen", "analyzed", "deselected"}

InitSelection ==
  /\ pc = "selection"
  /\ IdleMatrix /\ IdleOutliers /\ IdleMissing /\ IdleCompare /\ IdleParse
  /\ IdleRest
  /\ chartArgs = NoArgs /\ chart = NoChartData
  /\ summaries = <<>> /\ selectedColumn = "null" /\ filteredData = <<>>
  /\ files = <<>> /\ columnOptions = <<>> /\ selectedColumns = <<>>

\* The parent passes another file list: the effect on [files]
FilesChanged(fileList) ==
  /\ pc \in SelectionStages
  /\ fileList /= files
  /\ files' = fileList
  /\ columnOptions' = OptionsFrom(fileList, 1)
  /\ selectedColumns' = IF OptionsFrom(fileList, 1) = <<>> THEN <<>> ELSE selectedColumns
  /\ summaries' = IF OptionsFrom(fileList, 1) = <<>> THEN <<>> ELSE summaries
  /\ chart' = IF OptionsFrom(fileList, 1) = <<>> THEN NoChartData ELSE chart
  /\ pc' = "files"
  /\ UNCHANGED <<matrixVars, outlierVars, missingVars, chartArgs, compareVars,
               parseVars, restVars, selectedColumn, filteredData>>

\* The choice of an option in the select: handleColumnSelect(option)
HandleColumnSelect(o) ==
  /\ pc \in SelectionStages
  /\ o \in 1..Len(columnOptions)
  /\ selectedColumns' = WithEntry(selectedColumns, generateColumnKey(columnOptions[o]),
                                  columnOptions[o])
  /\ pc' = "chosen"
  /\ UNCHANGED <<matrixVars, outlierVars, missingVars, chartVars, compareVars,
               parseVars, restVars, analysisVars, files, columnOptions>>

\* The Analyze button, enabled when a column is selected: performAnalysis
PerformAnalysis ==
  /\ pc \in SelectionStages
  /\ selectedColumns /= <<>>
  /\ summaries' = SummariesOfFound(files, FoundEntries(files, selectedColumns))
  /\ chart' = ChartDataAfter(files, FoundEntries(files, selectedColumns), chart)
  /\ pc' = "analyzed"
  /\ UNCHANGED <<matrixVars, outlierVars, missingVars, chartArgs, compareVars,
               parseVars, restVars, selectedColumn, filteredData, selectionVars>>

\* The remove button of a selected column: removeColumn(key)
RemoveColumn(i) ==
  /\ pc \in SelectionStages
  /\ i \in 1..Len(selectedColumns)
  /\ selectedColumns' = WithoutKey(selectedColumns, selectedColumns[i].key)
  /\ summaries' = RemainingSummaries(summaries, selectedColumns[i].key)
  /\ pc' = "deselected"
  /\ UNCHANGED <<matrixVars, outlierVars, missingVars, chartVars, compareVars,
               parseVars, restVars, selectedColumn, filteredData, files,
               columnOptions>>

NextSelection ==
  \/ \E fileList \in FileLists : FilesChanged(fileList)
  \/ \E o \in 1..Len(columnOptions) : HandleColumnSelect(o)
  \/ PerformAnalysis
  \/ \E i \in 1..Len(selectedColumns) : RemoveColumn(i)

SpecSelection == InitSelection /\ [][NextSelection]_vars

\* ------------------------------------------------ comparison table
MaxTableRows == 3
SortFields == {"columnName", "a-mean", "diff-mean"}
TableRow(columnName, mean, diff) ==
  [f \in SortFields |->
    CASE f = "columnName" -> columnName [] f = "a-mean" -> mean [] OTHER -> diff]
\* Rows as generateComparisonTableData writes them: the name of the column,
\* a mean formatted by toFixed(4), and the formatted difference of the means
\* when the column was found in two datasets.
TableRows ==
  {TableRow(StrCell(<<"a">>), StrCell(<<"1", ".", "0", "0", "0", "0">>),
            StrCell(<<"+", "1", ".", "0", "0", "0", "0">>)),
   TableRow(StrCell(<<"a">>), StrCell(<<"2", ".", "0", "0", "0", "0">>), Undefined),
   TableRow(StrCell(<<"b">>), StrCell(<<"2", ".", "0", "0", "0", "0">>),
            StrCell(<<"-", "1", ".", "0", "0", "0", "0">>)),
   TableRow(StrCell(<<"b">>), StrCell(<<"1", "0", ".", "0", "0", "0", "0">>),
            StrCell(<<"0">>)),
   TableRow(StrCell(<<"c">>), StrCell(<<"1", "0", ".", "0", "0", "0", "0">>),
            StrCell(<<"+", "2", ".", "0", "0", "0", "0">>)),
   TableRow(StrCell(<<"c">>), StrCell(<<"1", ".", "0", "0", "0", "0">>),
            StrCell(<<"0">>))}
\* The tables of a comparison: one row per column name, and at most one row
\* without a difference, for the comparator to order the rows totally.
Tables ==
  {t \in UNION {[1..n -> TableRows] : n \in 1..MaxTableRows} :
     \A i, j \in 1..Len(t) :
       i /= j => t[i]["columnName"] /= t[j]["columnName"]}

InitSort ==
  /\ pc = "table"
  /\ IdleMatrix /\ IdleOutliers /\ IdleMissing /\ IdleCharts /\ IdleCompare
  /\ IdleParse /\ IdleExport /\ IdleUpload /\ IdleAnalysis /\ IdleSelection
  /\ tableData \in Tables
  /\ sortField = "null"
  /\ sortDirection = "asc"

\* A click on a sortable column head: handleSort(field). The sort reads the
\* sortField and sortDirection of the render the handler was created in; the
\* three state updates are applied together afterwards.
HandleSort(field) ==
  /\ pc \in {"table", "sorted"}
  /\ sortField' = field
  /\ sortDirection' = NextDirection(field, sortField, sortDirection)
  /\ tableData' = SortedRows(tableData, field, sortDirection)
  /\ pc' = "sorted"
  /\ UNCHANGED <<matrixVars, outlierVars, missingVars, chartVars, compareVars,
               parseVars, exportVars, uploads, analysisVars, selectionVars>>

NextSort == \E field \in SortFields : HandleSort(field)

SpecSort == InitSort /\ [][NextSort]_vars

\* ------------------------------------------------------ file upload
MaxInvocations == 2
UploadFile(name, type) == [name |-> name, type |-> type]
FileA == UploadFile(<<"a", ".", "c", "s", "v">>, "text/csv")
FileB == UploadFile(<<"b", ".", "c", "s", "v">>, "")
FileT == UploadFile(<<"t", ".", "t", "x", "t">>, "text/plain")
\* The file lists of a drop or of the file input.
UploadLists == {<<FileA>>, <<FileB>>, <<FileA, FileB>>, <<FileA, FileA>>,
                <<FileT, FileB>>, <<FileT>>}
Invocations == 1..MaxInvocations

InitUpload ==
  /\ pc = "upload"
  /\ IdleMatrix /\ IdleOutliers /\ IdleMissing /\ IdleCharts /\ IdleCompare
  /\ IdleParse /\ IdleExport /\ IdleSort /\ IdleAnalysis
  /\ files = <<>> /\ columnOptions = <<>> /\ selectedColumns = <<>>
  /\ uploads = [u \in Invocations |-> NotStarted]

\* A drop or a choice in the file input, with a user logged in: handleFiles
\* runs to its first await. The drop zone takes files at any time, also while
\* an earlier invocation is processing or saving. The invocation reads the
\* files of the render its handler was created in.
HandleFiles(u, fileList) ==
  /\ uploads[u].stage = "idle"
  /\ \A v \in 1..(u - 1) : uploads[v].stage /= "idle"
  /\ uploads' =
       [uploads EXCEPT ![u] =
         IF CsvFilesOf(fileList) = <<>>
         THEN [NotStarted EXCEPT !.stage = "rejected"]
         ELSE [NotStarted EXCEPT !.stage = "processing", !.files = files,
                                 !.csvFiles = CsvFilesOf(fileList)]]
  /\ pc' = "started"
  /\ UNCHANGED <<matrixVars, outlierVars, missingVars, chartVars, compareVars,
               parseVars, exportVars, sortVars, analysisVars, selectionVars>>

\* await processFile(file) resolves: handleFiles runs to its next await
FileProcessed(u) ==
  /\ uploads[u].stage = "processing"
  /\ uploads' =
       [uploads EXCEPT ![u] =
         AfterProcessed(uploads[u],
           Append(uploads[u].processedFiles,
                  ProcessedFile(u, Len(uploads[u].processedFiles) + 1,
                    uploads[u].csvFiles[Len(uploads[u].processedFiles) + 1])))]
  /\ pc' = "parsed"
  /\ UNCHANGED <<matrixVars, outlierVars, missingVars, chartVars, compareVars,
               parseVars, exportVars, sortVars, analysisVars, selectionVars>>

\* await saveFileToDatabase(newFile) resolves: handleFiles merges the file and
\* runs to its next await, or to its end with setFiles(mergedFiles)
FileSaved(u) ==
  /\ uploads[u].stage = "saving"
  /\ uploads' =
       [uploads EXCEPT ![u] =
         AfterSaved(uploads[u],
           MergedWith(uploads[u].mergedFiles, uploads[u].existingIndex,
                      uploads[u].processedFiles[uploads[u].i + 1]))]
  /\ files' = IF uploads'[u].stage = "done" THEN uploads'[u].mergedFiles ELSE files
  /\ pc' = "saved"
  /\ UNCHANGED <<matrixVars, outlierVars, missingVars, chartVars, compareVars,
               parseVars, exportVars, sortVars, analysisVars, columnOptions,
               selectedColumns>>

NextUpload ==
  \/ \E u \in DOMAIN uploads : \E fileList \in UploadLists : HandleFiles(u, fileList)
  \/ \E u \in DOMAIN uploads : FileProcessed(u)
  \/ \E u \in DOMAIN uploads : FileSaved(u)

SpecUpload == InitUpload /\ [][NextUpload]_vars

\* ------------------------------------------------------ the whole engine
Init ==
  \/ InitStats \/ InitOutliers \/ InitMissing \/ InitCharts \/ InitCompare
  \/ InitParse \/ InitAnalysis \/ InitSelection \/ InitSort \/ InitUpload
Next ==
  \/ NextStats \/ NextOutliers \/ NextMissing \/ NextCharts \/ NextCompare
  \/ NextParse \/ NextAnalysis \/ NextSelection \/ NextSort \/ NextUpload
Spec == Init /\ [][Next]_vars

\* ------------------------------------------------------------ claims
\* A non-empty cell that, as a whole, reads as a finite number.
FiniteNumberCell(c) == c.k = "str" /\ c.s /= <<>> /\ IsFinite(ToNumberStr(c.s))
\* The matrix has a data row, and every data row holds such a cell at index c.
EveryRowNumeric(c) ==
  Len(data) >= 2 /\ \A i \in 2..Len(data) : FiniteNumberCell(At(data[i], c))
Returned(c) == \E k \in 1..Len(numericColumns) : numericColumns[k].index = c

\* C1: getNumericColumns returns a column index c of the header row if and
\* only if the matrix has at least one data row and every data row holds at
\* index c a non-empty cell that parses as a finite number; a matrix with no
\* data rows yields the empty list.
C1_NumericColumns ==
  pc = "classified" =>
    /\ \A c \in 0..(Len(data[1]) - 1) : Returned(c) <=> EveryRowNumeric(c)
    /\ \A k \in 1..Len(numericColumns) :
         numericColumns[k].index \in 0..(Len(data[1]) - 1)
    /\ (Len(data) <= 1 => numericColumns = <<>>)
\* Two data rows: the second column is returned, the first is not although
\* its cell in the first data row is numeric.
C1_Witness ==
  /\ pc = "classified" /\ Len(data) = 3
  /\ Returned(1) /\ ~Returned(0)
  /\ FiniteNumberCell(At(data[2], 0)) /\ ~FiniteNumberCell(At(data[3], 0))

\* C2: whenever calculateStatistics finds n > 0 values, the summary satisfies
\* min <= median <= max and min <= mean <= max.
C2_OrderedSummary ==
  (pc = "summarised" /\ summary.count > 0) =>
    /\ NLe(summary.min, summary.median) /\ NLe(summary.median, summary.max)
    /\ NLe(summary.min, summary.mean) /\ NLe(summary.mean, summary.max)

\* The data rows whose cell at columnIndex parses to a finite number.
FiniteRows == {i \in 2..Len(data) : IsFinite(ParseFloat(At(data[i], columnIndex)))}

\* C3: calculateStatistics aggregates only the cells that parse to a finite
\* number: count equals the number of data rows whose cell at columnIndex is
\* a finite number.
C3_CountsFiniteOnly == pc = "summarised" => summary.count = Cardinality(FiniteRows)

\* No data-row cell of the column parses to a number.
NothingParses == \A i \in 2..Len(data) : IsNaN(ParseFloat(At(data[i], columnIndex)))
AllNull(s) ==
  /\ s.mean = NullNum /\ s.median = NullNum /\ s.min = NullNum /\ s.max = NullNum
  /\ s.stdDev = NullNum /\ s.variance = NullNum /\ s.q1 = NullNum /\ s.q3 = NullNum
  /\ s.skewness = NullNum /\ s.kurtosis = NullNum

\* C4: when no data-row cell of the column parses to a number (a header-only
\* matrix included), calculateStatistics returns a summary whose statistics
\* are all null and whose count is 0.
C4_EmptySummary ==
  (pc = "summarised" /\ NothingParses) => (AllNull(summary) /\ summary.count = 0)
\* Two data rows with text and with nothing in the column.
C4_Witness ==
  /\ pc = "summarised" /\ Len(data) = 3 /\ NothingParses
  /\ At(data[2], columnIndex) = StrCell(<<"a">>)
  /\ AllNull(summary) /\ summary.count = 0
\* The number of values below x, and of values not above x.
Below(values, x) == Cardinality({i \in 1..Len(values) : NLt(values[i], x)})
NotAbove(values, x) == Cardinality({i \in 1..Len(values) : NLe(values[i], x)})
\* The element at the 0-based position k of the values in ascending order.
RankedValue(values, k) ==
  CHOOSE x \in {values[i] : i \in 1..Len(values)} :
    Below(values, x) <= k /\ k < NotAbove(values, x)
FirstQuartile(values) == RankedValue(values, Len(values) \div 4)
ThirdQuartile(values) == RankedValue(values, (3 * Len(values)) \div 4)
Spread(values) == NSub(ThirdQuartile(values), FirstQuartile(values))
LowFence(values) == NSub(FirstQuartile(values), NMul(FromRatio(3, 2), Spread(values)))
HighFence(values) == NAdd(ThirdQuartile(values), NMul(FromRatio(3, 2), Spread(values)))
\* The 0-based positions of the values strictly outside the fences.
OutsideFences(values) ==
  IF values = <<>> THEN {}
  ELSE {i \in 0..(Len(values) - 1) :
          NLt(values[i + 1], LowFence(values)) \/ NGt(values[i + 1], HighFence(values))}
IndexSet(res) == {res.outlierIndices[k] : k \in 1..Len(res.outlierIndices)}
Increasing(idx) == \A k \in 1..(Len(idx) - 1) : idx[k] < idx[k + 1]
\* res reports exactly the positions in S of the array values.
Reports(res, values, S) ==
  /\ IndexSet(res) = S /\ Increasing(res.outlierIndices)
  /\ Len(res.outliers) = Len(res.outlierIndices)
  /\ \A k \in 1..Len(res.outliers) :
       res.outliers[k] = values[res.outlierIndices[k] + 1]

\* C5: detectOutliersIQR returns as outlierIndices exactly the positions, in
\* increasing order, of the input values strictly below q1 - 1.5*iqr or
\* strictly above q3 + 1.5*iqr, q1 and q3 being the elements at floor(n*0.25)
\* and floor(n*0.75) of the sorted input; outliers[k] is
\* input[outlierIndices[k]]; the input array is left unchanged.
C5_ExactIndices ==
  [][(pc = "values" /\ pc' = "iqr") =>
       (columnValues' = columnValues
        /\ Reports(detection', columnValues, OutsideFences(columnValues)))]_vars
\* An array that is not in ascending order, with outliers.
C5_Witness ==
  /\ pc = "iqr" /\ detection.outliers /= <<>>
  /\ \E i \in 1..(Len(columnValues) - 1) : NGt(columnValues[i], columnValues[i + 1])

\* The outlier count of detectOutliersIQR.
IQRCount(values) == Len(detectOutliersIQR(values).outliers)
\* The array without its outliers has the quartile elements of the array.
SameQuartiles ==
  /\ cleanedValues /= <<>>
  /\ FirstQuartile(cleanedValues) = FirstQuartile(columnValues)
  /\ ThirdQuartile(cleanedValues) = ThirdQuartile(columnValues)

\* C6 as stated: detectOutliersIQR on the array with its detected outliers
\* removed never finds more outliers than it found on the array.
C6_NeverIncreases ==
  (pc = "removed" /\ detectionMethod = "iqr") =>
    IQRCount(cleanedValues) <= Len(detection.outliers)
\* C6 as amended: when removing the detected outliers leaves the elements q1
\* and q3 as they were, detectOutliersIQR finds no outlier in what is left,
\* so the count does not increase.
C6_SameQuartilesNoOutliers ==
  (pc = "removed" /\ detectionMethod = "iqr" /\ SameQuartiles) =>
    /\ detectOutliersIQR(cleanedValues).outliers = <<>>
    /\ IQRCount(cleanedValues) <= Len(detection.outliers)
C6_Witness ==
  /\ pc = "removed" /\ detectionMethod = "iqr" /\ SameQuartiles
  /\ Len(cleanedValues) < Len(columnValues)
  /\ IQRCount(cleanedValues) = 0

\* C7 as stated: for the column [10,12,12,13,12,200] detectOutliersIQR flags
\* 200 as the sole outlier: outliers = [200], outlierIndices = [5].
C7_SoleOutlier ==
  (pc = "iqr" /\ columnValues = ExampleColumn) =>
    (detection.outliers = NumSeq(<<200>>) /\ detection.outlierIndices = <<5>>)
\* C7 as amended: for that column detectOutliersIQR flags 10 and 200:
\* outliers = [10,200], outlierIndices = [0,5].
C7_TwoOutliers ==
  (pc = "iqr" /\ columnValues = ExampleColumn) =>
    (detection.outliers = NumSeq(<<10, 200>>) /\ detection.outlierIndices = <<0, 5>>)
C7_Witness ==
  /\ pc = "iqr" /\ columnValues = ExampleColumn
  /\ IndexSet(detection) = {0, 5}

\* C8: for thresholds T2 > T1 the indices detectOutliersZScore flags with T2
\* are among those it flags with T1.
C8_ThresholdMonotone ==
  pc = "zscore" =>
    \A t1 \in Thresholds :
      NLt(t1, threshold) =>
        IndexSet(detection) \subseteq IndexSet(detectOutliersZScore(columnValues, t1))
\* Something is flagged, and a lower threshold flags more.
C8_Witness ==
  /\ pc = "zscore" /\ detection.outliers /= <<>>
  /\ \E t1 \in Thresholds :
       /\ NLt(t1, threshold)
       /\ IndexSet(detection) /= IndexSet(detectOutliersZScore(columnValues, t1))

\* C9: for an array whose values are all equal, and for the empty array,
\* detectOutliersZScore returns no outliers, whatever the threshold.
C9_ConstantNoOutliers ==
  (pc = "zscore"
   /\ \A i, j \in 1..Len(columnValues) : columnValues[i] = columnValues[j]) =>
    (detection.outliers = <<>> /\ detection.outlierIndices = <<>>)

\* A row with a cell at every column of the header, none of them undefined,
\* null or empty after trim.
CompleteRow(row) ==
  \A c \in 0..(Len(data[1]) - 1) :
    /\ c < Len(row)
    /\ row[c + 1].k \notin {"undefined", "null"}
    /\ ~(row[c + 1].k = "str" /\ Trim(row[c + 1].s) = <<>>)

\* C10: handleMissingValues(data, 'remove') returns the header followed by
\* exactly the data rows, in their order and unchanged, that have no missing
\* cell at any column of the header; a cell is missing when it is undefined,
\* null, empty after trim, or absent because the row is short.
C10_RemoveKeepsCompleteRows ==
  (pc = "processed" /\ method = "remove") =>
    processedData =
      <<data[1]>> \o ElementsAt(data, AscSeq({i \in 2..Len(data) : CompleteRow(data[i])}))

\* The cell of the row at the column c of the header is missing: undefined,
\* null, empty after trim, or absent.
MissingAt(row, c) ==
  \/ c >= Len(row)
  \/ row[c + 1].k \in {"undefined", "null"}
  \/ (row[c + 1].k = "str" /\ Trim(row[c + 1].s) = <<>>)
\* The non-missing numeric values of the column c of the input, in row order.
PresentNumbers(c) ==
  ElementsAt([i \in 1..Len(data) |-> ToNumber(At(data[i], c))],
             AscSeq({i \in 2..Len(data) :
                       ~MissingAt(data[i], c) /\ IsFinite(ToNumber(At(data[i], c)))}))
ColumnStatistic(m, values) ==
  IF m = "mean" THEN MeanOf(values) ELSE MedianOf(SortAsc(values))
\* The cell the claim expects at the column c of a row's image.
ImputedCell(row, c, m) ==
  IF MissingAt(row, c) /\ PresentNumbers(c) /= <<>>
  THEN NumCell(ColumnStatistic(m, PresentNumbers(c)))
  ELSE At(row, c)

\* C11: for 'mean' (resp. 'median') handleMissingValues replaces every
\* missing cell of a column with a non-missing numeric value by the mean
\* (resp. median) of the column's non-missing numeric values, leaves the
\* missing cells of the other columns and every non-missing cell as they
\* were, and drops no data row.
C11_ImputesColumnStatistic ==
  (pc = "processed" /\ method \in {"mean", "median"}) =>
    /\ Len(processedData) = Len(data)
    /\ \A i \in 2..Len(data) : \A c \in 0..(Len(data[1]) - 1) :
         At(processedData[i], c) = ImputedCell(data[i], c, method)

\* C12: handleMissingValues leaves every row and cell of its input matrix
\* unchanged, and row 0 of its output is row 0 of the input.
C12_InputUnchanged ==
  [][(pc = "raw" /\ pc' = "processed") =>
       (data' = data /\ processedData'[1] = data[1])]_vars
\* A call that replaced a cell.
C12_Witness ==
  /\ pc = "processed" /\ method \in {"mean", "median", "value"}
  /\ Len(processedData) = Len(data) /\ processedData /= data
  /\ processedData[1] = data[1]

\* The data rows whose cell at the column c parses to a finite number.
FiniteAt(c) == {i \in 2..Len(data) : IsFinite(ParseFloat(At(data[i], c)))}
\* The labels that some data row carries with a finite value.
FiniteLabels ==
  {At(data[i], chartArgs.labelColumnIndex) : i \in FiniteAt(chartArgs.valueColumnIndex)}

\* C13: the row limit is applied after deduplication: when the data rows
\* hold at least `limit` distinct labels with finite values,
\* prepareBarChartData returns exactly `limit` entries.
C13_LimitAfterDedup ==
  (pc = "bar" /\ Cardinality(FiniteLabels) >= chartArgs.limit) =>
    Len(chart.labels) = chartArgs.limit

\* The rows the bar preparer extracts that carry the label l with a finite
\* value.
ExtractedWith(l) ==
  {i \in FiniteAt(chartArgs.valueColumnIndex) :
     i <= chartArgs.limit + 1 /\ At(data[i], chartArgs.labelColumnIndex) = l}
ValueAt(i) == ParseFloat(At(data[i], chartArgs.valueColumnIndex))
\* v is the highest finite value of the extracted rows with the label l.
HighestOf(l, v) ==
  /\ \E i \in ExtractedWith(l) : ValueAt(i) = v
  /\ \A i \in ExtractedWith(l) : NLe(ValueAt(i), v)

\* C14: prepareBarChartData returns labels and values of equal length, at
\* most `limit` of them, the labels pairwise distinct, the values in
\* non-increasing order, each label with the highest finite value among the
\* extracted rows that carry it.
C14_BarChartShape ==
  pc = "bar" =>
    /\ Len(chart.labels) = Len(chart.values)
    /\ Len(chart.labels) <= chartArgs.limit
    /\ \A j, k \in 1..Len(chart.labels) : chart.labels[j] = chart.labels[k] => j = k
    /\ \A k \in 1..(Len(chart.values) - 1) : NLe(chart.values[k + 1], chart.values[k])
    /\ \A k \in 1..Len(chart.labels) : HighestOf(chart.labels[k], chart.values[k])

\* C15: the values preparePieChartData returns, the "Others" slice included,
\* sum to the total of the values prepareBarChartData returns for the same
\* arguments.
C15_PieTotalIsBarTotal ==
  pc = "pie" =>
    NSum(chart.values) =
      NSum(prepareBarChartData(data, chartArgs.labelColumnIndex,
                               chartArgs.valueColumnIndex, chartArgs.limit).values)

\* C16: with at least one numeric value in the column, prepareHistogramData
\* returns exactly `bins` labels and `bins` counts, the counts sum to the
\* number of finite values of the column, every value is counted in one of
\* the bins, the maximum in the last one.
C16_HistogramCounts ==
  (pc = "histogram" /\ FiniteAt(chartArgs.valueColumnIndex) /= {}) =>
    /\ Len(chart.labels) = chartArgs.bins /\ Len(chart.values) = chartArgs.bins
    /\ \A k \in 1..Len(chart.values) : IsFinite(chart.values[k])
    /\ NSum(chart.values) = FromInt(Cardinality(FiniteAt(chartArgs.valueColumnIndex)))
    /\ NLe(FromInt(1), chart.values[Len(chart.values)])

\* The column names a dataset selected, each by its header.
SelectedNames(ds) ==
  {SelectedName(ds, ds.columnIndices[k]) : k \in 1..Len(ds.columnIndices)}
\* The positions of the supplied datasets that selected a name.
Selecting(columnName) ==
  {d \in 1..Len(datasets) : columnName \in SelectedNames(datasets[d])}
SharedNames ==
  {n \in UNION {SelectedNames(datasets[d]) : d \in 1..Len(datasets)} :
     Cardinality(Selecting(n)) >= 2}
EntryIds(result) ==
  {result.datasets[j].datasetId : j \in 1..Len(result.datasets)}

\* C17: compareDatasets returns exactly one result per distinct column name
\* selected in at least two of the datasets, each with one stats entry for
\* every dataset that selected the name (so at least two); a name selected in
\* one dataset gives no result and zero datasets give the empty list.
C17_OneResultPerSharedName ==
  pc = "compared" =>
    /\ {comparison[i].columnName : i \in 1..Len(comparison)} = SharedNames
    /\ Len(comparison) = Cardinality(SharedNames)
    /\ \A i \in 1..Len(comparison) :
         /\ Len(comparison[i].datasets) >= 2
         /\ Len(comparison[i].datasets)
              = Cardinality(Selecting(comparison[i].columnName))
         /\ EntryIds(comparison[i])
              = {datasets[d].id : d \in Selecting(comparison[i].columnName)}
    /\ (Len(datasets) = 0 => comparison = <<>>)

\* The first statistic minus the second, 0 when either is null.
Minus(first, second) ==
  IF first.k = "null" \/ second.k = "null" THEN Zero ELSE NSub(first, second)
ComparedStatistics == {"mean", "median", "stdDev", "min", "max", "variance"}
\* The position of a dataset in the input.
InputPosition(id) == CHOOSE d \in 1..Len(datasets) : datasets[d].id = id
InInputOrder(entries) ==
  \A i, j \in 1..Len(entries) :
    i < j => InputPosition(entries[i].datasetId) < InputPosition(entries[j].datasetId)
FirstMinusSecond(result) ==
  /\ Len(result.differences) = 1
  /\ InInputOrder(result.datasets)
  /\ \A f \in ComparedStatistics :
       result.differences[1][f]
         = Minus(result.datasets[1].stats[f], result.datasets[2].stats[f])

\* C18: a result with exactly two dataset entries holds one difference record,
\* each of mean, median, stdDev, min, max and variance being the first entry's
\* statistic minus the second's (entries in input order), 0 when either is
\* null; a result with another number of entries holds no difference.
C18_DifferenceOfTwo ==
  pc = "compared" =>
    \A i \in 1..Len(comparison) :
      IF Len(comparison[i].datasets) = 2
      THEN FirstMinusSecond(comparison[i])
      ELSE comparison[i].differences = <<>>
\* A comparison with a result of two entries whose means differ, and a result
\* of three entries of which one has null statistics.
C18_Witness ==
  /\ pc = "compared"
  /\ \E i \in 1..Len(comparison) :
       /\ Len(comparison[i].datasets) = 2
       /\ comparison[i].differences[1].mean.k = "fin"
       /\ comparison[i].differences[1].mean.m /= 0
  /\ \E i \in 1..Len(comparison) :
       /\ Len(comparison[i].datasets) = 3
       /\ comparison[i].datasets[1].stats.min.k = "null"

\* The lines of the text, and those parseCSV reads: the lines from the first
\* to the last one that is not blank (the text is trimmed as a whole), or one
\* empty line when every line is blank.
InputLines == SplitLines(csv)
NonBlank == {i \in 1..Len(InputLines) : Trim(InputLines[i]) /= <<>>}
ReadLines ==
  IF NonBlank = {} THEN <<<<>>>>
  ELSE SubSeq(InputLines, AscSeq(NonBlank)[1], AscSeq(NonBlank)[Cardinality(NonBlank)])
\* Position q of a line holds a double quote not preceded by a backslash.
TogglesAt(line, q) == line[q] = "\"" /\ (q = 1 \/ line[q - 1] /= "\\")
\* Position q of a line is inside quotes: an odd number of toggles before it.
InsideQuotes(line, q) ==
  Cardinality({r \in 1..(q - 1) : TogglesAt(line, r)}) % 2 = 1
\* The positions of the commas outside quotes.
Separators(line) ==
  {q \in 1..Len(line) : line[q] = "," /\ ~TogglesAt(line, q) /\ ~InsideQuotes(line, q)}
\* The positions between separator n - 1 and separator n that are kept.
KeptOf(line, n) ==
  {q \in 1..Len(line) :
     /\ ~TogglesAt(line, q)
     /\ q \notin Separators(line)
     /\ Cardinality({r \in Separators(line) : r < q}) = n - 1}
ExpectedField(line, n) ==
  Trim([k \in 1..Cardinality(KeptOf(line, n)) |-> line[AscSeq(KeptOf(line, n))[k]]])
ExpectedRow(line) ==
  [n \in 1..(1 + Cardinality(Separators(line))) |-> StrCell(ExpectedField(line, n))]

\* C19: for every line, parseCSV gives 1 + (commas outside quotes) fields; a
\* double quote not right after a backslash toggles the inside-quotes state
\* and is dropped, a comma inside quotes stays in its field, and every field
\* is trimmed.
C19_FieldsOfEachLine ==
  pc = "uploaded" =>
    /\ Len(parsedData) = Len(ReadLines)
    /\ \A i \in 1..Len(parsedData) :
         /\ Len(parsedData[i]) = 1 + Cardinality(Separators(ReadLines[i]))
         /\ parsedData[i] = ExpectedRow(ReadLines[i])
\* A parsed line with a comma kept inside quotes, or one with a quote kept
\* after a backslash before a separating comma.
C19_Witness ==
  /\ pc = "uploaded"
  /\ csv \in {<<"\"", ",", "\"", "a">>, <<"\\", "\"", ",", "a">>}
  /\ parsedData \in {<<<<StrCell(<<",", "a">>)>>>>,
                     <<<<StrCell(<<"\\", "\"">>), StrCell(<<"a">>)>>>>}

\* C20: parseCSV of an empty or whitespace-only text returns a matrix with
\* zero rows, which validateCsvFile reports as the error 'File is empty or
\* could not be parsed'.
C20_EmptyTextIsInvalid ==
  (pc = "uploaded" /\ Trim(csv) = <<>>) =>
    /\ parsedData = <<>>
    /\ ~validation.isValid
    /\ \E k \in 1..Len(validation.issues) :
         /\ validation.issues[k].type = "error"
         /\ validation.issues[k].message = <<EmptyFileMessage>>

\* A text without quote characters.
Unquoted(text) == \A q \in 1..Len(text) : text[q] /= "\""

\* C21: for every CSV text without quote characters, parsing the serialized
\* parse gives the parse again, where serializing joins the cells of a row
\* with ',' and the rows with a line break.
C21_ParseIsIdempotent ==
  (pc \in {"uploaded", "exported"} /\ Unquoted(csv)) =>
    /\ parseCSV(Serialize(parsedData)) = parsedData
    /\ (pc = "exported" => parseCSV(exportedCsv) = parsedData)
\* An exported file of two rows whose text lost whitespace in the round trip.
C21_Witness ==
  /\ pc = "exported"
  /\ Unquoted(csv)
  /\ exportedCsv /= csv
  /\ Len(parsedData) = 2
  /\ \E i \in 1..2 : Len(parsedData[i]) = 2
  /\ parseCSV(exportedCsv) = parsedData

\* C22: when imputation stores a new processed matrix while summaries exist,
\* the summaries stored afterwards for the selected columns are those of the
\* new processed matrix, not of the matrix in use before.
C22_SummariesOfNewMatrix ==
  (pc = "imputed" /\ DOMAIN summaries /= {}) =>
    summaries = NewSummaries(AnalysisColumns, processedData)

\* The matrix rows (positions in dataToUse) the values of a column were
\* extracted from, in order.
ValueRows(dataToUse, c) ==
  AscSeq({i \in 2..Len(dataToUse) : ~IsNaN(ParseFloat(At(dataToUse[i], c)))})
\* The matrix rows whose cell in the column was flagged.
FlaggedRows(dataToUse, c, outlierIndices) ==
  {ValueRows(dataToUse, c)[outlierIndices[j] + 1] : j \in 1..Len(outlierIndices)}
WithoutFlagged(dataToUse, c, outlierIndices) ==
  ElementsAt(dataToUse,
             AscSeq((1..Len(dataToUse)) \ FlaggedRows(dataToUse, c, outlierIndices)))

\* C23: outlier removal takes out of the matrix exactly the data rows whose
\* cell in the selected column was flagged, also when the column holds
\* missing or non-numeric cells.
C23_RemovesFlaggedRows ==
  pc = "filtered" =>
    filteredData = WithoutFlagged(DataToUse(processedData, data),
                                  AnalysisColumns[selectedColumn].columnIndex,
                                  detection.outlierIndices)

\* How often a row occurs in a matrix.
Occurrences(rows, row) == Cardinality({i \in 1..Len(rows) : rows[i] = row})

\* C24: a removal that follows an earlier removal restores no row: the
\* filtered dataset holds no row more often than before.
C24_NoRowRestored ==
  [][(pc = "filtered" /\ pc' = "filtered") =>
       \A i \in 1..Len(filteredData') :
         Occurrences(filteredData', filteredData'[i])
           <= Occurrences(filteredData, filteredData'[i])]_vars

\* The dataset of the input with an id.
DatasetOfId(id) == datasets[InputPosition(id)]
\* The column indices a dataset selected under a name.
SelectedUnder(ds, columnName) ==
  {ds.columnIndices[k] : k \in {h \in 1..Len(ds.columnIndices) :
                                  SelectedName(ds, ds.columnIndices[h]) = columnName}}
StatsOfSelected(columnName, entry) ==
  \E columnIdx \in SelectedUnder(DatasetOfId(entry.datasetId), columnName) :
    entry.stats = calculateStatistics(DatasetOfId(entry.datasetId).data, columnIdx)

\* C25: the stats of each dataset entry of every result are those of a column
\* index the dataset selected under the result's column name, also when the
\* header row holds the name more than once.
C25_StatsOfSelectedColumn ==
  pc = "compared" =>
    \A i \in 1..Len(comparison) :
      \A j \in 1..Len(comparison[i].datasets) :
        StatsOfSelected(comparison[i].columnName, comparison[i].datasets[j])

\* compareDatasets([d2, d1]) for the compared pair [d1, d2]
SwappedComparison == compareDatasets(<<datasets[2], datasets[1]>>)
Negated(difference) ==
  [f \in ComparedStatistics |-> NNeg(difference[f])]
NegatedIn(result, swapped) ==
  \E h \in 1..Len(swapped) :
    /\ swapped[h].columnName = result.columnName
    /\ Len(swapped[h].differences) = Len(result.differences)
    /\ \A k \in 1..Len(result.differences) :
         \A f \in ComparedStatistics :
           swapped[h].differences[k][f] = Negated(result.differences[k])[f]

\* C26: for two datasets, each field of the difference record of the swapped
\* pair is the negation of the field of the pair, for the same column name.
C26_SwapNegates ==
  (pc = "compared" /\ Len(datasets) = 2) =>
    /\ Len(SwappedComparison) = Len(comparison)
    /\ \A i \in 1..Len(comparison) : NegatedIn(comparison[i], SwappedComparison)
\* A compared pair with a mean difference that is not zero.
C26_Witness ==
  /\ pc = "compared" /\ Len(datasets) = 2
  /\ \E i \in 1..Len(comparison) :
       /\ Len(comparison[i].differences) = 1
       /\ comparison[i].differences[1].mean.k = "fin"
       /\ comparison[i].differences[1].mean.m > 0
       /\ NegatedIn(comparison[i], SwappedComparison)

\* C27: handleMissingValues is idempotent for each method: applied to its own
\* result with the same method and replacement value, it returns that result.
C27_ImputationIsIdempotent ==
  pc = "processed" =>
    handleMissingValues(processedData, method, replacementValue) = processedData
\* A mean imputation that changed the matrix and left a number in it.
C27_Witness ==
  /\ pc = "processed"
  /\ method = "mean"
  /\ processedData /= data
  /\ \E i \in 2..Len(processedData) :
       \E p \in 1..Len(processedData[i]) : processedData[i][p].k = "num"
  /\ handleMissingValues(processedData, method, replacementValue) = processedData

\* C28: after any sequence of handleColumnSelect, performAnalysis,
\* removeColumn and file-list changes, every key of summaries is a key of
\* selectedColumns.
C28_SummariesAreSelected ==
  pc \in SelectionStages =>
    Keys(summaries) \subseteq Keys(selectedColumns)
\* A column was removed after the analysis and another one keeps its summary.
C28_Witness ==
  /\ pc = "deselected"
  /\ Keys(summaries) /= {}
  /\ Keys(summaries) /= Keys(selectedColumns)

\* C29: after every handleSort(field), the rows of tableData are ordered by
\* that field in the direction held in sortDirection: of two rows that both
\* have the field, the earlier one does not come after the later one in that
\* direction.
InDirection(valA, valB, direction) ==
  IF direction = "asc" THEN LocaleCompare(valA.s, valB.s) <= 0
  ELSE LocaleCompare(valA.s, valB.s) >= 0
OrderedBy(rows, field, direction) ==
  \A i, j \in 1..Len(rows) :
    (i < j /\ rows[i][field].k = "str" /\ rows[j][field].k = "str")
      => InDirection(rows[i][field], rows[j][field], direction)
C29_SortedInShownDirection ==
  pc = "sorted" => OrderedBy(tableData, sortField, sortDirection)
\* The first click on a field leaves the table in the direction shown.
C29_FirstSortAscending ==
  [][(pc = "table" /\ pc' = "sorted") => OrderedBy(tableData', sortField', sortDirection')]_vars

\* C30: after any interleaving of handleFiles invocations, the uploaded files
\* hold at most one entry per file name, and for every file processed by a
\* completed invocation they hold that file or a file of the same name that
\* replaced it: no completed upload is lost.
OneEntryPerName(fileList) ==
  \A i, j \in 1..Len(fileList) : fileList[i].name = fileList[j].name => i = j
HoldsName(fileList, name) == \E j \in 1..Len(fileList) : fileList[j].name = name
Completed(u) == u \in DOMAIN uploads /\ uploads[u].stage = "done"
C30_NoCompletedUploadLost ==
  pc \in {"started", "parsed", "saved"} =>
    /\ OneEntryPerName(files)
    /\ \A u \in Invocations :
         Completed(u) =>
           \A k \in 1..Len(uploads[u].processedFiles) :
             HoldsName(files, uploads[u].processedFiles[k].name)
\* The uploaded files hold at most one entry per file name.
C30_OneEntryPerName ==
  pc \in {"started", "parsed", "saved"} => OneEntryPerName(files)
\* An invocation started after every earlier one has completed loses nothing.
OneAtATime ==
  \A u, v \in Invocations :
    (u < v /\ uploads[v].stage /= "idle")
      => \A k \in 1..Len(uploads[u].processedFiles) :
           HoldsName(uploads[v].files, uploads[u].processedFiles[k].name)
C30_SequentialUploadsKept ==
  (pc \in {"started", "parsed", "saved"} /\ OneAtATime)
    => \A u \in Invocations :
         Completed(u) =>
           \A k \in 1..Len(uploads[u].processedFiles) :
             HoldsName(files, uploads[u].processedFiles[k].name)

====
